---------------------------- MODULE Spec2Model ----------------------------
(***************************************************************************)
(* Verification model of kondo-kj/mcp-with-oauth.                          *)
(*                                                                         *)
(* Part 1 (specifications Spec, FairSpec): the client-side authorization   *)
(* flow of src/cognito-and-ac-gateway/client.py: SimpleAuthClient.connect  *)
(* on the main thread, the CallbackServer listener thread running          *)
(* HTTPServer.serve_forever with CallbackHandler.do_GET, and the browser   *)
(* (or anyone else on the loopback interface) sending GET requests.        *)
(* Every statement that reads or writes the shared callback_data dict is   *)
(* one atomic step, so that the interleavings of the two threads are the   *)
(* ones the interpreter can produce.                                       *)
(*                                                                         *)
(* Part 2 (specification SpecVerifier): CognitoTokenVerifier.verify_token  *)
(* of src/cognito/cognito_token_verifier.py applied to abstract tokens.    *)
(*                                                                         *)
(* Part 3 (SpecAuthServer, SpecIntrospection): the authorization server    *)
(* and the introspecting resource server of src/local.                     *)
(*                                                                         *)
(* Part 4 (SpecGateway, FairSpecGateway): GatewayCreator.setup_complete of *)
(* src/cognito-and-ac-gateway/create_gateway.py against the gateway        *)
(* control plane.                                                          *)
(***************************************************************************)
EXTENDS Naturals, Sequences, FiniteSets

\* Python's None.
NONE == "None"

(***************************************************************************)
(* Bounds of the model.                                                    *)
(***************************************************************************)
\* Number of GET requests sent to the loopback listener in one run.
MaxGets == 2
\* wait_for_callback's timeout, counted in poll intervals (sleep(0.1)).
TimeoutTicks == 2
\* Number of additional stop() calls made after connect has finished.
MaxExtraStops == 2

(***************************************************************************)
(* Inputs.                                                                 *)
(***************************************************************************)
\* The state parameter the orchestrator generated for this flow.
GeneratedState == "abc123"

\* The path of the registered redirect URI (line 269 / 288).
CallbackPath == "/callback"

\* GET requests: the path (urlparse(self.path).path) and the query string
\* after parse_qs, where a parameter that is absent (or blank, which
\* parse_qs drops) is NONE.  The genuine redirect, a redirect with a
\* foreign state, a request for another path whose query carries a code
\* and no state, an error redirect, and a request with neither code nor
\* error.
Requests ==
    { [path |-> CallbackPath, code |-> "XYZ",   state |-> GeneratedState, error |-> NONE],
      [path |-> CallbackPath, code |-> "OTHER", state |-> "evil",         error |-> NONE],
      [path |-> "/other",     code |-> "OTHER", state |-> NONE,           error |-> NONE],
      [path |-> CallbackPath, code |-> NONE,    state |-> NONE,           error |-> "access_denied"],
      [path |-> CallbackPath, code |-> NONE,    state |-> NONE,           error |-> NONE] }

\* Value of req while the listener handles no request.
NoRequest == [path |-> NONE, code |-> NONE, state |-> NONE, error |-> NONE]

\* Python truthiness of an optional string.
Truthy(x) == x # NONE /\ x # ""

(***************************************************************************)
(* CognitoTokenVerifier: configuration, key sets and tokens.               *)
(***************************************************************************)
\* Bound: number of verify_token calls made on one verifier instance.
MaxVerifyCalls == 2

\* leeway=300 of the three jwt.decode calls.
Leeway == 300

\* The time at which the tokens are verified (epoch seconds).
Now == 1000

AppClientId == "app-client"
Issuer == "https://cognito-idp/pool"
ExpectedResource == "https://api.example.com/mcp"
OtherResource == "https://other.example.com/mcp"

\* A JSON value stored in self._jwks_cache.  kind "None" is the initial
\* None, "empty_dict" is {} (a dict without 'keys'), "dict" a dict whose
\* 'keys' list holds the keys with these kids.
NoJwks == [kind |-> "None", kids |-> <<>>]
JwksDocs ==
    { [kind |-> "dict", kids |-> <<"k1", "k2">>],
      [kind |-> "dict", kids |-> <<>>],
      [kind |-> "empty_dict", kids |-> <<>>] }

\* What requests.get / raise_for_status / response.json can do (lines 87-89).
FetchOutcomes ==
    { [kind |-> k, doc |-> NoJwks] :
        k \in {"network_error", "http_error", "bad_json"} }
    \cup { [kind |-> "json", doc |-> d] : d \in JwksDocs }

\* Variant that also takes a key set with an empty key list for no cache.
CacheTruthy_NonEmptyKeys(cache) == cache.kind = "dict" /\ Len(cache.kids) > 0

\* Python truthiness of the cache (line 86): None and {} are falsy.
CacheTruthy(cache) == cache.kind = "dict"

\* Optional claims.
NoAud == [kind |-> "absent", vals |-> {}]
AudClaims ==
    { NoAud,
      [kind |-> "string", vals |-> {ExpectedResource}],
      [kind |-> "string", vals |-> {OtherResource}],
      [kind |-> "string", vals |-> {AppClientId}],
      [kind |-> "list", vals |-> {AppClientId, ExpectedResource}] }

ExpClaims ==
    { [present |-> FALSE, value |-> 0] }
    \cup { [present |-> TRUE, value |-> v] :
             v \in {Now - 400, Now - 300, Now - 100, Now + 3600} }

\* The scope claim as its words and the blanks between them.
ScopeClaims ==
    { [present |-> FALSE, words |-> <<>>],
      [present |-> TRUE, words |-> <<"openid">>],
      [present |-> TRUE, words |-> <<"profile", " ", "openid">>],
      [present |-> TRUE, words |-> <<"profile">>] }

\* A JWT: whether it parses at all, its header (kid, alg), the key whose
\* private half signed it, and its payload.
WellFormedTokens ==
    [ wellformed : {TRUE},
      kid : {"k1", "k9", NONE},
      alg : {"RS256", "HS256"},
      signer : {"k1", "attacker"},
      iss : {Issuer, "https://evil.example.com", NONE},
      exp : ExpClaims,
      token_use : {"access", "id", "refresh", NONE},
      aud : AudClaims,
      client_id : {AppClientId, "other-client", NONE},
      scope : ScopeClaims ]

\* A string that is no JWT.
MalformedToken ==
    [ wellformed |-> FALSE, kid |-> NONE, alg |-> "RS256",
      signer |-> "attacker", iss |-> NONE,
      exp |-> [present |-> FALSE, value |-> 0], token_use |-> NONE,
      aud |-> NoAud, client_id |-> NONE,
      scope |-> [present |-> FALSE, words |-> <<>>] ]

Tokens == WellFormedTokens \cup {MalformedToken}

\* verify_token's results: None, or an AccessToken.
NoneResult ==
    [ kind |-> "None", client_id |-> NONE, scopes |-> <<>>,
      expires_at |-> <<>>, resource |-> NONE ]

VARIABLES
    \* ---- CallbackServer fields
    callback_data,      \* the dict shared by handler and waiter
    server,             \* self.server is an HTTPServer object (TRUE) or None
    thread,             \* self.thread is a Thread object (TRUE) or None
    \* ---- HTTPServer (socketserver.BaseServer) state
    sock,               \* "unbound" | "listening" | "closed"
    shutdown_request,   \* BaseServer.__shutdown_request
    is_shut_down,       \* BaseServer.__is_shut_down (threading.Event)
    backlog,            \* connections waiting in the listen queue
    \* ---- listener thread
    lpc,                \* position of the listener thread
    req,                \* the request do_GET is handling
    \* ---- main thread (connect / wait_for_callback / stop)
    mpc,                \* position of the main thread
    stopRet,            \* who called stop(): "flow" | "extra"
    elapsed,            \* time.time() - start_time in poll intervals, counted
                        \* up to TimeoutTicks (line 199 asks nothing more)
    slept,              \* a poll interval has passed since sleep(0.1) began
    auth_code,          \* value returned by wait_for_callback
    raisedErr,          \* error named by the exception of line 203
    outcome,            \* "none" | "code" | "error" | "timeout"
    handed,             \* <<code, state>> returned by callback_handler, else <<>>
    exchanged,          \* code sent in the token-exchange request
    flowError,          \* how connect failed, "none" if it did not
    \* ---- history
    started,            \* CallbackServer.start() returned normally
    stopCalls,          \* stop() calls made by connect itself
    stopReturns,        \* stop() calls that have returned
    extraStops,         \* stop() calls made after connect finished
    sent,               \* GET requests sent so far
    opened,             \* webbrowser.open(authorization_url) has been called
    gets,               \* requests accepted by the listener, in order
    answered,           \* HTTP status of each completed request, in order
    polled,             \* Len(answered) at the waiter's latest line-200 read
    firstResult,        \* <<callback_data>> after the first completed callback
    \* ---- CognitoTokenVerifier
    expected_resource,  \* self.expected_resource (None when not configured)
    jwks_cache,         \* self._jwks_cache
    token,              \* the token handed to verify_token
    fetches,            \* requests.get(self.jwks_url) calls so far
    verifyCalls,        \* verify_token calls so far
    lastResult,         \* what the latest verify_token call returned
    decodedWith,        \* history: key the latest call gave to the verifying
                        \* jwt.decode, NONE if it made no such call
    lastFetch,          \* history: the latest call's key-set fetch: "none"
                        \* (no fetch made), "failed" (lines 87-89 raised)
                        \* or "json" (line 89 stored the response)
    tasks,              \* verify_token coroutines handed to the event loop
                        \* that have not run yet: the token of each
    burst,              \* history: every call so far was started before any
                        \* call had run
    \* ---- authorization server (local/auth_server.py and its provider)
    as_now,             \* the authorization server's clock
    authReq,            \* authorization request of each state value: its
                        \* phase and the resource it asked for
    tokenStore,         \* the provider's tokens, keyed by token value
    authenticated,      \* history: the request passed the credential check
    exchanges,          \* history: successful exchanges of the request's code
    httpReq,            \* the latest request the server handled
    httpResp,           \* and its response
    \* ---- introspection verifier of the resource server
    oauth_strict,       \* ResourceServerSettings.oauth_strict
    ivCalls,            \* verify_token calls so far
    ivOutcome,          \* what the latest introspection request came to
    ivResult,           \* what the latest verify_token call returned
    \* ---- gateway setup (cognito-and-ac-gateway/create_gateway.py)
    gw,                 \* the control plane's gateways, by gateway id
    gpc,                \* position of the setup script
    runs,               \* setup_complete runs started so far
    gateway_id,         \* the gateway the run found or created
    listed,             \* status of that gateway in list_gateways' answer
    resp_status,        \* gateway_response.get('status', 'UNKNOWN')
    pending,            \* delete_gateway: listed targets not yet deleted
    waitFrom,           \* caller of wait_for_gateway_ready
    waited,             \* status checks the wait has slept after
    created,            \* history: the run called create_gateway
    deleted,            \* history: the run called delete_gateway(_target)
    leftTargets,        \* history: targets the gateway still had when the
                        \* control plane was asked to delete it
    observed,           \* history: status in the run's latest get_gateway
    waitRet,            \* history: how the run's latest wait ended, "none"
                        \* while it runs
    targetCall,         \* history: get_or_create_lambda_target was called
    gresult             \* how the latest run ended

flowVars ==
    <<callback_data, server, thread, sock, shutdown_request, is_shut_down,
      backlog, lpc, req, mpc, stopRet, elapsed, slept, auth_code,
      raisedErr, outcome, handed, exchanged, flowError, started, stopCalls,
      stopReturns, extraStops, sent, opened, gets, answered, polled,
      firstResult>>

verifierVars ==
    <<expected_resource, jwks_cache, token, fetches, verifyCalls, lastResult,
      decodedWith, lastFetch, tasks, burst>>

authVars ==
    <<as_now, authReq, tokenStore, authenticated, exchanges, httpReq,
      httpResp, oauth_strict, ivCalls, ivOutcome, ivResult>>

gwVars ==
    <<gw, gpc, runs, gateway_id, listed, resp_status, pending, waitFrom,
      waited, created, deleted, leftTargets, observed, waitRet, targetCall,
      gresult>>

vars == <<flowVars, verifierVars, authVars, gwVars>>

\* Groups left unchanged by the steps of one thread.
serverVars == <<server, thread, sock, shutdown_request, is_shut_down>>
listenerVars == <<backlog, lpc, req, gets, answered, firstResult>>
waitVars == <<elapsed, slept, auth_code, raisedErr, outcome, polled>>
resultVars == <<handed, exchanged, flowError>>
stopHist == <<started, stopCalls, stopReturns, extraStops, stopRet>>

(***************************************************************************)
(* Initial state: CallbackServer.__init__ has not run yet; connect is      *)
(* about to construct it.                                                  *)
(***************************************************************************)
InitFlow ==
    /\ callback_data = [authorization_code |-> NONE, state |-> NONE, error |-> NONE]
    /\ server = FALSE
    /\ thread = FALSE
    /\ sock = "unbound"
    /\ shutdown_request = FALSE
    /\ is_shut_down = FALSE
    /\ backlog = <<>>
    /\ lpc = "none"
    /\ req = NoRequest
    /\ mpc = "c_start"
    /\ stopRet = "flow"
    /\ elapsed = 0
    /\ slept = FALSE
    /\ auth_code = NONE
    /\ raisedErr = NONE
    /\ outcome = "none"
    /\ handed = <<>>
    /\ exchanged = NONE
    /\ flowError = "none"
    /\ started = FALSE
    /\ stopCalls = 0
    /\ stopReturns = 0
    /\ extraStops = 0
    /\ sent = 0
    /\ opened = FALSE
    /\ gets = <<>>
    /\ answered = <<>>
    /\ polled = 0
    /\ firstResult = <<>>

\* The verifier as constructed (lines 37-44), with no call made yet.
InitVerifierIdle ==
    /\ expected_resource = NONE
    /\ jwks_cache = NoJwks
    /\ token = MalformedToken
    /\ fetches = 0
    /\ verifyCalls = 0
    /\ lastResult = NoneResult
    /\ decodedWith = NONE
    /\ lastFetch = "none"
    /\ tasks = <<>>
    /\ burst = TRUE

(***************************************************************************)
(* Authorization server and introspection verifier (src/local): data.      *)
(***************************************************************************)
\* Bound: how far the authorization server's clock runs.
MaxTime == 3

\* Bound: number of verify_token calls of the introspection verifier.
MaxIntrospectCalls == 2

\* Lifetime of an issued token, in clock ticks.
TokenTtl == 1

\* The state values of the authorization requests; the code and the token
\* minted for a request are named after its state.
AuthStates == {"s1", "s2"}

\* str(settings.server_url) of the resource server, and another resource.
ResourceServerUrl == "http://localhost:8001/mcp"
OtherServerUrl == "http://localhost:9999/mcp"

McpScope == "user"
DemoClientId == "demo-client"

\* No request yet, and the response before any request.
NoHttpReq == [endpoint |-> "none", kind |-> "absent", arg |-> NONE, at |-> 0]
NoHttpResp ==
    [ status |-> 0, body |-> "none", active |-> "n/a", client_id |-> NONE,
      scope |-> <<>>, exp |-> <<>>, aud |-> NONE, provider |-> FALSE ]

\* A token the provider has not stored.
NoStoredToken ==
    [ stored |-> FALSE, client_id |-> NONE, scopes |-> <<>>,
      expires_at |-> 0, resource |-> NONE, revoked |-> FALSE ]

\* The introspection verifier's results and the outcome of its request
\* before any call.
NoIntrospection ==
    [ kind |-> "none", active |-> "missing", client_id |-> NONE,
      scope |-> <<>>, exp |-> <<>>, aud |-> NONE ]

InitAuthState ==
    /\ as_now = 0
    /\ authReq = [s \in AuthStates |-> [phase |-> "none", resource |-> NONE]]
    /\ tokenStore = [s \in AuthStates |-> NoStoredToken]
    /\ authenticated = [s \in AuthStates |-> FALSE]
    /\ exchanges = [s \in AuthStates |-> 0]
    /\ httpReq = NoHttpReq
    /\ httpResp = NoHttpResp
    /\ ivCalls = 0
    /\ ivOutcome = NoIntrospection
    /\ ivResult = NoneResult

\* oauth_strict: bool = False (mcp-server-with-auth.py line 55).
InitAuthIdle == InitAuthState /\ oauth_strict = FALSE

(***************************************************************************)
(* Gateway setup (src/cognito-and-ac-gateway/create_gateway.py): data.     *)
(***************************************************************************)
\* Bound: number of times the setup script is run.
MaxRuns == 2

\* Bound: status checks after which wait_for_gateway_ready gives up
\* (max_wait_seconds / check_interval, 300 / 10 in the code).
MaxWaitChecks == 2

GatewayName == "sample-agentcore-gateway"
OtherGatewayName == "another-gateway"

\* Gateway ids the control plane hands out; with all of them in use it
\* refuses to create a gateway.
GatewayIds == {"g1", "g2"}

\* Name of the target the script registers, and of a target someone else
\* registered.
LambdaTargetName == "sample-agentcore-gateway-lambda-target"
OtherTargetName == "other-target"

\* Status values of a gateway: those get_or_create_gateway and
\* wait_for_gateway_ready name, and UPDATING for every other one.
GatewayStatuses ==
    {"CREATING", "READY", "FAILED", "UPDATING", "DELETING", "DELETED"}

\* No gateway has this id.
NoGateway == [name |-> NONE, status |-> NONE, targets |-> {}]

\* The script has not been run: no gateway exists.
InitGatewayIdle ==
    /\ gw = [id \in GatewayIds |-> NoGateway]
    /\ gpc = "idle"
    /\ runs = 0
    /\ gateway_id = NONE
    /\ listed = NONE
    /\ resp_status = NONE
    /\ pending = {}
    /\ waitFrom = "none"
    /\ waited = 0
    /\ created = FALSE
    /\ deleted = FALSE
    /\ leftTargets = {}
    /\ observed = NONE
    /\ waitRet = "none"
    /\ targetCall = FALSE
    /\ gresult = "none"

Init == InitFlow /\ InitVerifierIdle /\ InitAuthIdle /\ InitGatewayIdle

(***************************************************************************)
(* The browser, or any other local process: one more GET reaches the       *)
(* listening socket.  Connections queue in the listen backlog as soon as   *)
(* the socket is bound (HTTPServer.__init__), also before serve_forever    *)
(* runs; a closed socket refuses them.                                     *)
(***************************************************************************)
SendGET ==
    /\ sock = "listening"
    /\ sent < MaxGets
    /\ \E r \in Requests : backlog' = Append(backlog, r)
    /\ sent' = sent + 1
    /\ UNCHANGED <<opened, callback_data, serverVars, lpc, req, gets, answered,
                   firstResult, mpc, waitVars, resultVars, stopHist,
                   verifierVars, authVars, gwVars>>

(***************************************************************************)
(* Listener thread: HTTPServer.serve_forever, the target of the thread     *)
(* started at line 173, and CallbackHandler.do_GET.                        *)
(***************************************************************************)
\* serve_forever entry: self.__is_shut_down.clear()
ServeForeverClear ==
    /\ lpc = "sf_clear"
    /\ is_shut_down' = FALSE
    /\ lpc' = "sf_loop"
    /\ UNCHANGED <<callback_data, server, thread, sock, shutdown_request,
                   backlog, req, gets, answered, firstResult, mpc, waitVars,
                   resultVars, stopHist, sent, opened, verifierVars, authVars, gwVars>>

\* while not self.__shutdown_request: select; handle one ready request.
ServeForeverLoop ==
    /\ lpc = "sf_loop"
    /\ IF shutdown_request
         THEN /\ lpc' = "sf_finally"
              /\ UNCHANGED <<backlog, req, gets>>
         ELSE /\ backlog # <<>>
              /\ req' = Head(backlog)
              /\ backlog' = Tail(backlog)
              /\ gets' = Append(gets, Head(backlog))
              /\ lpc' = "do_GET"
    /\ UNCHANGED <<callback_data, serverVars, answered, firstResult, mpc,
                   waitVars, resultVars, stopHist, sent, opened, verifierVars, authVars, gwVars>>

\* serve_forever's finally: __shutdown_request = False; __is_shut_down.set()
ServeForeverFinally ==
    /\ lpc = "sf_finally"
    /\ shutdown_request' = FALSE
    /\ is_shut_down' = TRUE
    /\ lpc' = "exited"
    /\ UNCHANGED <<callback_data, server, thread, sock, backlog, req, gets,
                   answered, firstResult, mpc, waitVars, resultVars, stopHist,
                   sent, opened, verifierVars, authVars, gwVars>>

\* Variant of line 112 that also resets the state.
StoreError_ResetState(cd, error) == [cd EXCEPT !.error = error, !.state = NONE]

\* Line 112: self.callback_data["error"] = query_params["error"][0]
StoreError(cd, error) == [cd EXCEPT !.error = error]

\* firstResult after a request has been answered with callback_data cd.
RecordFirst(cd) ==
    IF firstResult = <<>> /\ (Truthy(cd.authorization_code) \/ Truthy(cd.error))
      THEN <<cd>>
      ELSE firstResult

\* do_GET lines 88-93 / 110-112 / 130-132: the branch on the query and the
\* first store.  The code branch continues at line 94.
DoGET ==
    /\ lpc = "do_GET"
    /\ IF req.code # NONE
         THEN /\ callback_data' = [callback_data EXCEPT !.authorization_code = req.code]
              /\ lpc' = "do_GET_94"
              /\ UNCHANGED <<req, answered, firstResult>>
         ELSE IF req.error # NONE
           THEN /\ callback_data' = StoreError(callback_data, req.error)
                /\ answered' = Append(answered, 400)
                /\ firstResult' = RecordFirst(callback_data')
                /\ req' = NoRequest
                /\ lpc' = "sf_loop"
           ELSE /\ answered' = Append(answered, 404)
                /\ req' = NoRequest
                /\ lpc' = "sf_loop"
                /\ UNCHANGED <<callback_data, firstResult>>
    /\ UNCHANGED <<serverVars, backlog, gets, mpc, waitVars, resultVars,
                   stopHist, sent, opened, verifierVars, authVars, gwVars>>

\* do_GET lines 94-109: store the state, answer 200.
DoGETState ==
    /\ lpc = "do_GET_94"
    /\ callback_data' = [callback_data EXCEPT !.state = req.state]
    /\ answered' = Append(answered, 200)
    /\ firstResult' = RecordFirst(callback_data')
    /\ req' = NoRequest
    /\ lpc' = "sf_loop"
    /\ UNCHANGED <<serverVars, backlog, gets, mpc, waitVars, resultVars,
                   stopHist, sent, opened, verifierVars, authVars, gwVars>>

(***************************************************************************)
(* Main thread: SimpleAuthClient.connect.                                  *)
(***************************************************************************)
WaitPcs == {"w_start", "w_while", "w_ifcode", "w_return", "w_iferror",
            "w_raise", "w_sleep", "w_timeout"}
StopPcs == {"s_if_server", "s_shutdown", "s_shutdown_wait", "s_close",
            "s_join"}

\* Variant in which connect carries on after a failed start().
ConnectExcept_Resume == "c_transport"

\* Lines 323-326: connect's except clause reports the failure and connect
\* returns; nothing after the failing statement of the try block runs.
ConnectExcept == "finished"

\* Lines 247-248 with CallbackServer.start (169-175): HTTPServer(...) binds
\* and listens, the thread starts serve_forever.  HTTPServer(...) raises
\* OSError when the port is taken; connect's except clause then ends it.
CallbackServerStart ==
    /\ mpc = "c_start"
    /\ \/ /\ server' = TRUE
          /\ sock' = "listening"
          /\ thread' = TRUE
          /\ lpc' = "sf_clear"
          /\ started' = TRUE
          /\ mpc' = "c_transport"
          /\ UNCHANGED flowError
       \/ /\ flowError' = "StartFailed"
          /\ mpc' = ConnectExcept
          /\ UNCHANGED <<server, sock, thread, lpc, started>>
    /\ UNCHANGED <<callback_data, shutdown_request, is_shut_down, backlog,
                   req, gets, answered, firstResult, waitVars, handed,
                   exchanged, stopCalls, stopReturns, extraStops, stopRet,
                   sent, opened, verifierVars, authVars, gwVars>>

\* Lines 264-326: the provider is built and the transport opened.  The
\* provider invokes callback_handler only when it runs an authorization
\* flow; the connection can fail (or be cancelled) before that, and a
\* session can run without any authorization flow.
ConnectTransport ==
    /\ mpc = "c_transport"
    /\ \/ /\ mpc' = "c_redirect"
          /\ UNCHANGED flowError
       \/ /\ flowError' = "ConnectFailed"
          /\ mpc' = "finished"
       \/ /\ mpc' = "finished"
          /\ UNCHANGED flowError
    /\ UNCHANGED <<callback_data, serverVars, listenerVars, waitVars, handed,
                   exchanged, stopHist, sent, opened, verifierVars, authVars, gwVars>>

\* Lines 259-262: the provider, running an authorization flow, calls the
\* redirect handler, which opens the authorization URL in the browser;
\* it then calls callback_handler (line 250).
RedirectHandler ==
    /\ mpc = "c_redirect"
    /\ opened' = TRUE
    /\ mpc' = "w_start"
    /\ UNCHANGED <<callback_data, serverVars, listenerVars, waitVars,
                   resultVars, stopHist, sent, verifierVars, authVars, gwVars>>

(***************************************************************************)
(* CallbackServer.wait_for_callback (lines 185-205), one step per line.    *)
(***************************************************************************)
\* Line 198: start_time = time.time()
WaitStart ==
    /\ mpc = "w_start"
    /\ elapsed' = 0
    /\ mpc' = "w_while"
    /\ UNCHANGED <<callback_data, serverVars, listenerVars, slept,
                   auth_code, raisedErr, outcome, polled, resultVars,
                   stopHist, sent, opened, verifierVars, authVars, gwVars>>

\* Variant of line 199 that never gives up: while True
WaitWhile_NoTimeout ==
    /\ mpc = "w_while"
    /\ mpc' = "w_ifcode"
    /\ UNCHANGED <<callback_data, serverVars, listenerVars, waitVars,
                   resultVars, stopHist, sent, opened, verifierVars, authVars, gwVars>>

\* Line 199: while time.time() - start_time < timeout
WaitWhile ==
    /\ mpc = "w_while"
    /\ mpc' = IF elapsed < TimeoutTicks THEN "w_ifcode" ELSE "w_timeout"
    /\ UNCHANGED <<callback_data, serverVars, listenerVars, waitVars,
                   resultVars, stopHist, sent, opened, verifierVars, authVars, gwVars>>

\* Line 200: if self.callback_data["authorization_code"]
WaitIfCode ==
    /\ mpc = "w_ifcode"
    /\ polled' = Len(answered)
    /\ mpc' = IF Truthy(callback_data.authorization_code)
                THEN "w_return" ELSE "w_iferror"
    /\ UNCHANGED <<callback_data, serverVars, listenerVars, elapsed,
                   slept, auth_code, raisedErr, outcome, resultVars,
                   stopHist, sent, opened, verifierVars, authVars, gwVars>>

\* Line 201: return self.callback_data["authorization_code"]
WaitReturn ==
    /\ mpc = "w_return"
    /\ auth_code' = callback_data.authorization_code
    /\ outcome' = "code"
    /\ mpc' = "h_get_state"
    /\ UNCHANGED <<callback_data, serverVars, listenerVars, elapsed,
                   slept, raisedErr, polled, resultVars, stopHist, sent, opened, verifierVars, authVars, gwVars>>

\* Variant of line 202 without the error branch: the wait only sleeps.
WaitIfError_Ignored ==
    /\ mpc = "w_iferror"
    /\ mpc' = "w_sleep"
    /\ slept' = FALSE
    /\ UNCHANGED <<callback_data, serverVars, listenerVars, elapsed,
                   auth_code, raisedErr, outcome, polled, resultVars,
                   stopHist, sent, opened, verifierVars, authVars, gwVars>>

\* Line 202: elif self.callback_data["error"]; line 204 begins the sleep.
WaitIfError ==
    /\ mpc = "w_iferror"
    /\ IF Truthy(callback_data.error)
         THEN /\ mpc' = "w_raise"
              /\ UNCHANGED slept
         ELSE /\ mpc' = "w_sleep"
              /\ slept' = FALSE
    /\ UNCHANGED <<callback_data, serverVars, listenerVars, elapsed,
                   auth_code, raisedErr, outcome, polled, resultVars,
                   stopHist, sent, opened, verifierVars, authVars, gwVars>>

\* Line 203: raise Exception(f"OAuth error: {self.callback_data['error']}")
WaitRaise ==
    /\ mpc = "w_raise"
    /\ raisedErr' = callback_data.error
    /\ outcome' = "error"
    /\ mpc' = "h_finally"
    /\ UNCHANGED <<callback_data, serverVars, listenerVars, elapsed,
                   slept, auth_code, polled, resultVars, stopHist, sent, opened, verifierVars, authVars, gwVars>>

\* Line 204: time.sleep(0.1) returns once a poll interval has passed.
WaitSleep ==
    /\ mpc = "w_sleep"
    /\ slept
    /\ slept' = FALSE
    /\ mpc' = "w_while"
    /\ UNCHANGED <<callback_data, serverVars, listenerVars, elapsed,
                   auth_code, raisedErr, outcome, polled, resultVars,
                   stopHist, sent, opened, verifierVars, authVars, gwVars>>

\* Line 205: raise Exception("OAuth callback wait timed out")
WaitTimeout ==
    /\ mpc = "w_timeout"
    /\ outcome' = "timeout"
    /\ mpc' = "h_finally"
    /\ UNCHANGED <<callback_data, serverVars, listenerVars, elapsed,
                   slept, auth_code, raisedErr, polled, resultVars,
                   stopHist, sent, opened, verifierVars, authVars, gwVars>>

\* time.time() advances while the wait runs (lines 198-199).
Tick ==
    /\ mpc \in WaitPcs
    /\ elapsed < TimeoutTicks \/ (mpc = "w_sleep" /\ ~slept)
    /\ elapsed' = IF elapsed < TimeoutTicks THEN elapsed + 1 ELSE elapsed
    /\ slept' = (mpc = "w_sleep")
    /\ UNCHANGED <<callback_data, serverVars, listenerVars, mpc,
                   auth_code, raisedErr, outcome, polled, resultVars,
                   stopHist, sent, opened, verifierVars, authVars, gwVars>>

(***************************************************************************)
(* connect.callback_handler (lines 250-257).                               *)
(***************************************************************************)
\* Line 255 with CallbackServer.get_state (207-209).
GetState ==
    /\ mpc = "h_get_state"
    /\ handed' = <<auth_code, callback_data.state>>
    /\ mpc' = "h_finally"
    /\ UNCHANGED <<callback_data, serverVars, listenerVars, waitVars,
                   exchanged, flowError, stopHist, sent, opened, verifierVars, authVars, gwVars>>

\* Lines 256-257: finally: callback_server.stop()
HandlerFinally ==
    /\ mpc = "h_finally"
    /\ stopCalls' = stopCalls + 1
    /\ stopRet' = "flow"
    /\ mpc' = "s_if_server"
    /\ UNCHANGED <<callback_data, serverVars, listenerVars, waitVars,
                   resultVars, started, stopReturns, extraStops, sent, opened, verifierVars, authVars, gwVars>>

\* callback_handler ends: the pair is returned, or the exception of the
\* wait propagates through the provider to connect's except clause.
HandlerExit ==
    /\ mpc = "h_exit"
    /\ IF outcome = "code"
         THEN /\ mpc' = "p_state_check"
              /\ UNCHANGED flowError
         ELSE /\ mpc' = "finished"
              /\ flowError' = IF outcome = "error" THEN "CallbackError"
                                                   ELSE "CallbackTimeout"
    /\ UNCHANGED <<callback_data, serverVars, listenerVars, waitVars, handed,
                   exchanged, stopHist, sent, opened, verifierVars, authVars, gwVars>>

(***************************************************************************)
(* CallbackServer.stop (lines 177-183).  server.shutdown() sets            *)
(* __shutdown_request and blocks on the __is_shut_down event, which        *)
(* serve_forever sets when its loop has ended.                             *)
(***************************************************************************)
\* Variant of line 179 without the guard: self.server.shutdown() on None
\* raises AttributeError.
StopIfServer_NoGuard ==
    /\ mpc = "s_if_server"
    /\ mpc' = IF server THEN "s_shutdown" ELSE "s_raised"
    /\ UNCHANGED <<callback_data, serverVars, listenerVars, waitVars,
                   resultVars, stopHist, sent, opened, verifierVars, authVars, gwVars>>

\* Line 179: if self.server
StopIfServer ==
    /\ mpc = "s_if_server"
    /\ mpc' = IF server THEN "s_shutdown" ELSE "s_join"
    /\ UNCHANGED <<callback_data, serverVars, listenerVars, waitVars,
                   resultVars, stopHist, sent, opened, verifierVars, authVars, gwVars>>

\* Line 180, first half of shutdown(): self.__shutdown_request = True
StopShutdown ==
    /\ mpc = "s_shutdown"
    /\ shutdown_request' = TRUE
    /\ mpc' = "s_shutdown_wait"
    /\ UNCHANGED <<callback_data, server, thread, sock, is_shut_down,
                   listenerVars, waitVars, resultVars, stopHist, sent, opened, verifierVars, authVars, gwVars>>

\* Variant of line 180 that does not wait for serve_forever to end
\* (server_close() without a completed shutdown()).
StopShutdownWait_NoWait ==
    /\ mpc = "s_shutdown_wait"
    /\ mpc' = "s_close"
    /\ UNCHANGED <<callback_data, serverVars, listenerVars, waitVars,
                   resultVars, stopHist, sent, opened, verifierVars, authVars, gwVars>>

\* Line 180, second half of shutdown(): self.__is_shut_down.wait()
StopShutdownWait ==
    /\ mpc = "s_shutdown_wait"
    /\ is_shut_down
    /\ mpc' = "s_close"
    /\ UNCHANGED <<callback_data, serverVars, listenerVars, waitVars,
                   resultVars, stopHist, sent, opened, verifierVars, authVars, gwVars>>

\* Line 181: self.server.server_close() closes the listening socket; the
\* connections still queued on it are dropped.
StopServerClose ==
    /\ mpc = "s_close"
    /\ sock' = "closed"
    /\ backlog' = <<>>
    /\ mpc' = "s_join"
    /\ UNCHANGED <<callback_data, server, thread, shutdown_request,
                   is_shut_down, lpc, req, gets, answered, firstResult,
                   waitVars, resultVars, stopHist, sent, opened, verifierVars, authVars, gwVars>>

\* Lines 182-183: if self.thread: self.thread.join(timeout=1); stop()
\* returns.  The join gives up after one second, so it never blocks for
\* good.
StopJoin ==
    /\ mpc = "s_join"
    /\ stopReturns' = stopReturns + 1
    /\ mpc' = IF stopRet = "flow" THEN "h_exit" ELSE "finished"
    /\ UNCHANGED <<callback_data, serverVars, listenerVars, waitVars,
                   resultVars, started, stopCalls, extraStops, stopRet, sent, opened, verifierVars, authVars, gwVars>>

\* A caller cleaning up once more: stop() on the CallbackServer after
\* connect has finished.
ExtraStop ==
    /\ mpc = "finished"
    /\ extraStops < MaxExtraStops
    /\ extraStops' = extraStops + 1
    /\ stopRet' = "extra"
    /\ mpc' = "s_if_server"
    /\ UNCHANGED <<callback_data, serverVars, listenerVars, waitVars,
                   resultVars, started, stopCalls, stopReturns, sent, opened, verifierVars, authVars, gwVars>>

(***************************************************************************)
(* OAuthClientProvider, after callback_handler has returned (spec 4.2):    *)
(* the state is compared with the generated one before any token exchange. *)
(***************************************************************************)
ProviderStateCheck ==
    /\ mpc = "p_state_check"
    /\ IF handed[2] = GeneratedState
         THEN /\ mpc' = "p_exchange"
              /\ UNCHANGED flowError
         ELSE /\ mpc' = "finished"
              /\ flowError' = "StateMismatch"
    /\ UNCHANGED <<callback_data, serverVars, listenerVars, waitVars, handed,
                   exchanged, stopHist, sent, opened, verifierVars, authVars, gwVars>>

\* The token-exchange request carries the code that was handed over; the
\* token endpoint accepts or rejects it.
ProviderExchange ==
    /\ mpc = "p_exchange"
    /\ exchanged' = handed[1]
    /\ mpc' = "finished"
    /\ \/ UNCHANGED flowError
       \/ flowError' = "TokenExchangeFailed"
    /\ UNCHANGED <<callback_data, serverVars, listenerVars, waitVars, handed,
                   stopHist, sent, opened, verifierVars, authVars, gwVars>>

Listener ==
    \/ ServeForeverClear
    \/ ServeForeverLoop
    \/ ServeForeverFinally
    \/ DoGET
    \/ DoGETState

MainThread ==
    \/ CallbackServerStart
    \/ ConnectTransport
    \/ RedirectHandler
    \/ WaitStart
    \/ WaitWhile
    \/ WaitIfCode
    \/ WaitReturn
    \/ WaitIfError
    \/ WaitRaise
    \/ WaitSleep
    \/ WaitTimeout
    \/ GetState
    \/ HandlerFinally
    \/ HandlerExit
    \/ StopIfServer
    \/ StopShutdown
    \/ StopShutdownWait
    \/ StopServerClose
    \/ StopJoin
    \/ ProviderStateCheck
    \/ ProviderExchange

Next ==
    \/ SendGET
    \/ ServeForeverClear
    \/ ServeForeverLoop
    \/ ServeForeverFinally
    \/ DoGET
    \/ DoGETState
    \/ CallbackServerStart
    \/ ConnectTransport
    \/ RedirectHandler
    \/ WaitStart
    \/ WaitWhile
    \/ WaitIfCode
    \/ WaitReturn
    \/ WaitIfError
    \/ WaitRaise
    \/ WaitSleep
    \/ WaitTimeout
    \/ Tick
    \/ GetState
    \/ HandlerFinally
    \/ HandlerExit
    \/ StopIfServer
    \/ StopShutdown
    \/ StopShutdownWait
    \/ StopServerClose
    \/ StopJoin
    \/ ExtraStop
    \/ ProviderStateCheck
    \/ ProviderExchange

Spec == Init /\ [][Next]_vars

\* Both threads are scheduled and the clock advances; the browser and the
\* extra stop() calls are under no obligation.
FairSpec ==
    /\ Spec
    /\ WF_vars(MainThread)
    /\ WF_vars(Listener)
    /\ WF_vars(Tick)

(***************************************************************************)
(* Claims about the callback listener and the authorization flow.          *)
(***************************************************************************)
GetIndexes == 1..Len(gets)

\* No accepted request carried a code.
NoCodeCallback == \A i \in GetIndexes : gets[i].code = NONE

\* An error callback had been answered when the waiter last read line 200.
ErrorAnsweredBeforePoll == \E i \in 1..polled : answered[i] = 400

\* C1: first-writer-wins: once a first callback has populated the result,
\* no later GET changes authorization_code, state or error.
C1_FirstWriterWins ==
    firstResult # <<>> => callback_data = firstResult[1]

\* C2: state binding: a token-exchange request is sent only for a code that
\* a callback delivered together with the generated state, and a handed
\* state that differs from the generated one ends the flow with a
\* state-mismatch error and without any token exchange.
C2_StateBinding ==
    /\ exchanged # NONE =>
         \E i \in GetIndexes :
            gets[i].code = exchanged /\ gets[i].state = GeneratedState
    /\ (mpc = "finished" /\ handed # <<>> /\ handed[2] # GeneratedState) =>
         (flowError = "StateMismatch" /\ exchanged = NONE)

\* C3: guaranteed release: whenever connect has finished after start()
\* succeeded, connect has called stop().
C3_StopOnEveryExit ==
    (mpc = "finished" /\ started) => stopCalls >= 1

\* C4: authorization_code and error are never both set, and both are empty
\* only while no callback carrying a code or an error has been answered.
C4_CodeXorError ==
    /\ ~(Truthy(callback_data.authorization_code) /\ Truthy(callback_data.error))
    /\ (~Truthy(callback_data.authorization_code) /\ ~Truthy(callback_data.error))
         => \A i \in 1..Len(answered) : answered[i] = 404

\* C5: when the callbacks received carry an error and no code, the wait
\* returns no code and no token exchange is sent; a callback error names an
\* error that a callback delivered; and an error callback answered before
\* the waiter's last poll makes the wait raise the callback error.
C5_ErrorCallbackRaises ==
    /\ NoCodeCallback =>
         (outcome # "code" /\ auth_code = NONE /\ handed = <<>> /\ exchanged = NONE)
    /\ outcome = "error" =>
         /\ \E i \in GetIndexes : gets[i].code = NONE /\ gets[i].error = raisedErr
         /\ Truthy(raisedErr)
         /\ auth_code = NONE /\ handed = <<>> /\ exchanged = NONE
         /\ mpc = "finished" => flowError = "CallbackError"
    /\ (NoCodeCallback /\ ErrorAnsweredBeforePoll /\ outcome # "none") =>
         outcome = "error"

C5_Witness ==
    /\ mpc = "finished"
    /\ outcome = "error"
    /\ raisedErr = "access_denied"
    /\ gets = <<[path |-> CallbackPath, code |-> NONE, state |-> NONE,
                  error |-> "access_denied"]>>
    /\ flowError = "CallbackError"

\* C6: when a single callback GET with code c and state s has been handled,
\* a wait that polled after it returned c, and the pair handed to the
\* orchestrator is (c, s).
C6_SingleCallbackReturned ==
    (sent = 1 /\ Len(gets) = 1 /\ Len(answered) = 1 /\ gets[1].code # NONE) =>
        /\ (outcome # "none" /\ polled = 1) =>
              (outcome = "code" /\ auth_code = gets[1].code)
        /\ handed # <<>> => handed = <<gets[1].code, gets[1].state>>

\* C7 (safety part): the wait returns only a code that a callback
\* delivered, raises the timeout only once the timeout has elapsed, and
\* ends in the timeout when no callback carried a code or an error.
C7_WaitSafe ==
    /\ outcome = "code" => \E i \in GetIndexes : gets[i].code = auth_code
    /\ outcome = "timeout" => elapsed >= TimeoutTicks
    /\ (outcome # "none" /\ \A i \in GetIndexes :
                               gets[i].code = NONE /\ gets[i].error = NONE)
         => outcome = "timeout"

\* C7: wait_for_callback always terminates (it never blocks the caller for
\* good), and what it does is safe in the sense of C7_WaitSafe.
C7_WaitTerminates ==
    /\ [](C7_WaitSafe)
    /\ (mpc = "w_start") ~> (outcome # "none")

C7_Witness ==
    /\ mpc = "finished"
    /\ outcome = "timeout"
    /\ flowError = "CallbackTimeout"
    /\ gets = <<>>

\* C8: stop() on a listener that is already stopped, or was never started,
\* does not raise, does not block in shutdown(), and leaves the listener
\* stopped.
C8_StopIdempotent ==
    (stopRet = "extra" /\ (stopReturns >= 1 \/ ~started)) =>
        /\ mpc # "s_raised"
        /\ mpc = "s_shutdown_wait" => is_shut_down
        /\ sock # "listening"
        /\ lpc \in {"none", "exited"}

C8_Witness ==
    /\ mpc = "finished"
    /\ stopRet = "extra"
    /\ started
    /\ stopCalls = 1
    /\ stopReturns = 3
    /\ sock = "closed"

\* C9 (safety part): no request is handled on a closed socket, the socket
\* is closed only after the listener loop has ended, and the socket is
\* released once a stop() of a started listener has returned.
C9_StopSafe ==
    /\ lpc \in {"do_GET", "do_GET_94"} => sock = "listening"
    /\ sock = "closed" => lpc = "exited"
    /\ (started /\ stopReturns >= 1) => sock = "closed"

AnsweredIndexes == 1..Len(answered)

\* C31: only the callback path populates the result: every GET for a path
\* other than /callback is answered 404, and whatever authorization_code
\* or error the result holds was carried by a GET for /callback.
C31_OnlyCallbackPath ==
    /\ \A i \in AnsweredIndexes :
         gets[i].path # CallbackPath => answered[i] = 404
    /\ Truthy(callback_data.authorization_code) =>
         \E i \in GetIndexes :
            /\ gets[i].path = CallbackPath
            /\ gets[i].code = callback_data.authorization_code
    /\ Truthy(callback_data.error) =>
         \E i \in GetIndexes :
            /\ gets[i].path = CallbackPath
            /\ gets[i].error = callback_data.error

\* The listener step that ends do_GET for a request without a code.
NoCodeRequestHandled == lpc = "do_GET" /\ lpc' = "sf_loop" /\ req.code = NONE

\* C32: frame effect of do_GET on a request without a code: with no error
\* either, the answer is 404 and authorization_code, state and error stay
\* as they were; with an error, the answer is 400, error becomes the
\* request's error, and authorization_code and state stay as they were.
C32_NoCodeFrame ==
    [][NoCodeRequestHandled =>
         /\ callback_data'.authorization_code = callback_data.authorization_code
         /\ callback_data'.state = callback_data.state
         /\ IF req.error = NONE
              THEN /\ callback_data'.error = callback_data.error
                   /\ answered' = Append(answered, 404)
              ELSE /\ callback_data'.error = req.error
                   /\ answered' = Append(answered, 400)]_vars

C32_Witness ==
    /\ Len(gets) = 2
    /\ gets[1].code = "XYZ"
    /\ answered = <<200, 400>>
    /\ callback_data = [authorization_code |-> "XYZ", state |-> GeneratedState,
                        error |-> "access_denied"]

\* The first accepted request that carried a code or an error carried an
\* error and no code.
FirstCallbackIsError ==
    \E i \in GetIndexes :
       /\ gets[i].code = NONE /\ gets[i].error # NONE
       /\ \A j \in 1..(i - 1) : gets[j].code = NONE /\ gets[j].error = NONE

\* C33: the first callback decides: when the first callback carried an
\* error, wait_for_callback returns no authorization code, whatever
\* callbacks follow it.
C33_FirstCallbackDecides ==
    FirstCallbackIsError => (outcome # "code" /\ auth_code = NONE)

\* C34: no torn read: the (code, state) pair that callback_handler returns
\* is the code and the state of one and the same callback request.
C34_NoTornRead ==
    handed # <<>> =>
        \E i \in GetIndexes :
           gets[i].code = handed[1] /\ gets[i].state = handed[2]

\* The listener is bound and its thread has been started.
ListenerUp == server /\ thread /\ sock = "listening" /\ lpc # "none"

\* C35: ordering in connect: the browser is opened only after start() has
\* returned, at a moment when the listener is bound and its thread is
\* running, and never when start() failed.
C35_ListenerBeforeBrowser ==
    /\ [](opened => started)
    /\ [](flowError = "StartFailed" => ~opened)
    /\ [][(~opened /\ opened') => ListenerUp]_vars

C35_Witness ==
    /\ opened
    /\ mpc = "w_start"
    /\ sock = "listening"
    /\ lpc = "sf_loop"

(***************************************************************************)
(* CognitoTokenVerifier.verify_token (cognito_token_verifier.py 74-190).   *)
(* It is an async function without any await, so one call runs to its end  *)
(* before another call on the same event loop starts: a call is one step.  *)
(***************************************************************************)
\* An exception leaving the try block, named by its class.
Raise(exc) == [NoneResult EXCEPT !.kind = exc]

\* Exception classes derived from jwt.InvalidTokenError.
InvalidTokenErrors ==
    {"DecodeError", "InvalidAlgorithmError", "InvalidSignatureError",
     "ExpiredSignatureError", "MissingRequiredClaimError",
     "InvalidIssuerError", "InvalidAudienceError"}

\* str.split() of the scope claim (line 165).
Split(words) == SelectSeq(words, LAMBDA w : w # " ")

Contains(seq, x) == \E i \in 1..Len(seq) : seq[i] = x

\* "not aud" for payload.get('aud') (line 62), and the same test inside
\* jwt.decode's audience check.
AudFalsy(aud) == aud.kind = "absent" \/ aud.vals = {} \/ aud.vals = {""}

\* Variant that accepts every aud.
VerifyResourceBinding_AcceptAll(tok) == TRUE

\* Variant without the early return of lines 56-59.
VerifyResourceBinding_NoSkip(tok) ==
    /\ ~AudFalsy(tok.aud)
    /\ tok.aud.kind = "string" /\ tok.aud.vals = {expected_resource}

\* _verify_resource_binding (lines 46-72).
VerifyResourceBinding(tok) ==
    IF ~Truthy(expected_resource)
      THEN TRUE
      ELSE IF AudFalsy(tok.aud)
        THEN FALSE
        ELSE tok.aud.kind = "string" /\ tok.aud.vals = {expected_resource}

\* Variant of the expiry test that allows no clock skew.
ExpiredAt_NoLeeway(exp) == exp.present /\ exp.value <= Now

\* jwt.decode's expiry test with leeway=300 (lines 124, 139, 158): the
\* token is expired when exp <= now - leeway; a token without exp is not.
ExpiredAt(exp) == exp.present /\ exp.value <= Now - Leeway

\* Variant that, like the decode of line 107, verifies no signature.
JwtDecode_NoSignature(tok, key, audience, verify_aud) ==
    IF ExpiredAt(tok.exp) THEN "ExpiredSignatureError"
    ELSE IF tok.iss = NONE THEN "MissingRequiredClaimError"
    ELSE IF tok.iss # Issuer THEN "InvalidIssuerError"
    ELSE IF ~verify_aud THEN "ok"
    ELSE IF AudFalsy(tok.aud) THEN "MissingRequiredClaimError"
    ELSE IF audience \notin tok.aud.vals THEN "InvalidAudienceError"
    ELSE "ok"

\* jwt.decode(token, key, algorithms=['RS256'], issuer=self.issuer,
\* leeway=300, ...) of lines 119-126, 134-141 and 152-159: "ok", or the
\* class of the exception it raises.  verify_aud is off in the access
\* branches and on, with audience = app_client_id, in the id branch.
JwtDecode(tok, key, audience, verify_aud) ==
    IF tok.alg # "RS256" THEN "InvalidAlgorithmError"
    ELSE IF tok.signer # key THEN "InvalidSignatureError"
    ELSE IF ExpiredAt(tok.exp) THEN "ExpiredSignatureError"
    ELSE IF tok.iss = NONE THEN "MissingRequiredClaimError"
    ELSE IF tok.iss # Issuer THEN "InvalidIssuerError"
    ELSE IF ~verify_aud THEN "ok"
    ELSE IF AudFalsy(tok.aud) THEN "MissingRequiredClaimError"
    ELSE IF audience \notin tok.aud.vals THEN "InvalidAudienceError"
    ELSE "ok"

\* Variant that falls back to the first key of the set on a kid miss.
KeyFor_FirstKey(cache, kid) ==
    IF Contains(cache.kids, kid) THEN kid
    ELSE IF Len(cache.kids) > 0 THEN cache.kids[1] ELSE NONE

\* Lines 96-100: the key of the first jwk whose kid is the header's kid.
KeyFor(cache, kid) ==
    IF Contains(cache.kids, kid) THEN kid ELSE NONE

\* Variant that takes any scope for the required one.
HasRequiredScope_Any(token_scopes) == Len(token_scopes) > 0

\* Variant that requires the scope named by the log message of line 167.
HasRequiredScope_Profile(token_scopes) == Contains(token_scopes, "profile")

\* Line 166: 'openid' in token_scopes.
HasRequiredScope(token_scopes) == Contains(token_scopes, "openid")

\* Variant that copies aud whatever the token kind is.
ResourceIndicator_AnyKind(tok) ==
    IF tok.aud.kind = "string" THEN CHOOSE v \in tok.aud.vals : TRUE ELSE NONE

\* Line 171: payload.get('aud') if token_use == 'access' else None, for an
\* aud that AccessToken accepts (a string, or none).
ResourceIndicator(tok) ==
    IF tok.token_use = "access" /\ tok.aud.kind = "string"
      THEN CHOOSE v \in tok.aud.vals : TRUE
      ELSE NONE

\* Variant that lets a token without client_id pass.
ClientIdMatches_AbsentOk(tok) == tok.client_id \in {AppClientId, NONE}

\* Lines 145-146: payload.get('client_id') == self.app_client_id.
ClientIdMatches(tok) == tok.client_id = AppClientId

\* Variant that verifies every kind other than 'id' as an access token.
TokenKind_DefaultAccess(token_use) ==
    IF token_use = "id" THEN "id" ELSE "access"

\* Lines 111, 150, 160: the branch taken for a token_use value.
TokenKind(token_use) ==
    IF token_use = "access" THEN "access"
    ELSE IF token_use = "id" THEN "id"
    ELSE "unknown"

\* Lines 164-180: the scope check and the AccessToken.  AccessToken is a
\* validated model whose resource is a string or None: a list-valued aud
\* of an access token makes its construction raise.
ScopeAndBuild(tok) ==
    LET token_scopes == IF tok.scope.present THEN Split(tok.scope.words) ELSE <<>>
        is_access == tok.token_use = "access"
    IN  IF ~HasRequiredScope(token_scopes) THEN NoneResult
        ELSE IF is_access /\ tok.aud.kind = "list" THEN Raise("ValidationError")
        ELSE [ kind |-> "AccessToken",
               client_id |-> IF tok.client_id # NONE THEN tok.client_id
                                                      ELSE AppClientId,
               scopes |-> token_scopes,
               expires_at |-> IF tok.exp.present THEN <<tok.exp.value>> ELSE <<>>,
               resource |-> ResourceIndicator(tok) ]

\* Lines 91-180, with the key set in cache.
VerifyBody(tok, cache) ==
    IF ~tok.wellformed THEN Raise("DecodeError")
    ELSE IF cache.kind # "dict" THEN Raise("KeyError")
    ELSE LET key == KeyFor(cache, tok.kid) IN
      IF key = NONE THEN NoneResult
      ELSE IF TokenKind(tok.token_use) = "access" THEN
        LET d == JwtDecode(tok, key, NONE, FALSE) IN
          IF d # "ok" THEN Raise(d)
          ELSE IF tok.aud.kind # "absent" /\ ~VerifyResourceBinding(tok)
            THEN NoneResult
          ELSE IF ~ClientIdMatches(tok) THEN NoneResult
          ELSE ScopeAndBuild(tok)
      ELSE IF TokenKind(tok.token_use) = "id" THEN
        LET d == JwtDecode(tok, key, AppClientId, TRUE) IN
          IF d # "ok" THEN Raise(d) ELSE ScopeAndBuild(tok)
      ELSE NoneResult

\* Variant of lines 182-190 without the final "except Exception": only the
\* jwt errors are turned into None.
ExceptClauses_JwtOnly(r) ==
    IF r.kind \in {"None", "AccessToken"} THEN r
    ELSE IF r.kind \in InvalidTokenErrors THEN NoneResult
    ELSE r

\* Lines 182-190: the three except clauses.
ExceptClauses(r) ==
    IF r.kind \in {"None", "AccessToken"} THEN r
    ELSE IF r.kind = "ExpiredSignatureError" THEN NoneResult
    ELSE IF r.kind \in InvalidTokenErrors THEN NoneResult
    ELSE NoneResult

\* The exception of a failed fetch (lines 87-89).
FetchError(kind) ==
    IF kind = "network_error" THEN "ConnectionError"
    ELSE IF kind = "http_error" THEN "HTTPError"
    ELSE "JSONDecodeError"

\* The key the call hands to the verifying jwt.decode (lines 119, 134,
\* 152), NONE when the call ends before it.
DecodeKey(tok, cache) ==
    IF tok.wellformed /\ cache.kind = "dict"
         /\ TokenKind(tok.token_use) \in {"access", "id"}
      THEN KeyFor(cache, tok.kid)
      ELSE NONE

\* Variant that stores an empty key set when the fetch fails.
CacheAfterFetch_StoreOnError(cache, f) ==
    IF f.kind = "json" THEN f.doc ELSE [kind |-> "dict", kids |-> <<>>]

\* Line 89 runs only when lines 87-88 did not raise: the cache after a
\* fetch with outcome f.
CacheAfterFetch(cache, f) ==
    IF f.kind = "json" THEN f.doc ELSE cache

\* One verify_token call on tok, from line 84 to its return.
VerifyCall(tok) ==
    /\ \E f \in FetchOutcomes :
         LET fetch == ~CacheTruthy(jwks_cache)
             cache == IF fetch THEN CacheAfterFetch(jwks_cache, f)
                               ELSE jwks_cache
             r == IF fetch /\ f.kind # "json"
                    THEN Raise(FetchError(f.kind))
                    ELSE VerifyBody(tok, cache)
         IN  /\ jwks_cache' = cache
             /\ fetches' = IF fetch THEN fetches + 1 ELSE fetches
             /\ lastFetch' = IF ~fetch THEN "none"
                              ELSE IF f.kind = "json" THEN "json" ELSE "failed"
             /\ lastResult' = ExceptClauses(r)
             /\ decodedWith' = IF fetch /\ f.kind # "json"
                                 THEN NONE
                                 ELSE DecodeKey(tok, cache)
    /\ verifyCalls' = verifyCalls + 1

\* One verify_token call on the token under test, awaited by its caller.
VerifyToken ==
    /\ verifyCalls < MaxVerifyCalls
    /\ VerifyCall(token)
    /\ UNCHANGED <<expected_resource, token, tasks, burst, flowVars, authVars, gwVars>>

\* A verifier constructed with or without expected_resource, and the token
\* it is asked to verify.
InitVerifier ==
    /\ InitFlow
    /\ InitAuthIdle
    /\ InitGatewayIdle
    /\ expected_resource \in {NONE, ExpectedResource}
    /\ jwks_cache = NoJwks
    /\ token \in Tokens
    /\ fetches = 0
    /\ verifyCalls = 0
    /\ lastResult = NoneResult
    /\ decodedWith = NONE
    /\ lastFetch = "none"
    /\ tasks = <<>>
    /\ burst = TRUE

NextVerifier == VerifyToken

SpecVerifier == InitVerifier /\ [][NextVerifier]_vars

(***************************************************************************)
(* Several verify_token calls on one verifier and one event loop.  The     *)
(* coroutine has no await, so the loop runs each call from line 84 to its  *)
(* return before it runs the next: calls that start together are run one   *)
(* after the other, in the order they were started.                        *)
(***************************************************************************)
\* Bound: number of verify_token calls started on the event loop.
MaxLoopCalls == 3

\* A token that passes every check.
GoodAccessToken ==
    [ wellformed |-> TRUE, kid |-> "k1", alg |-> "RS256", signer |-> "k1",
      iss |-> Issuer, exp |-> [present |-> TRUE, value |-> Now + 3600],
      token_use |-> "access", aud |-> NoAud, client_id |-> AppClientId,
      scope |-> [present |-> TRUE, words |-> <<"openid">>] ]

\* The tokens of the concurrent callers: a valid one, one whose kid is in
\* no key set, and a string that is no JWT.
LoopTokens ==
    { GoodAccessToken, [GoodAccessToken EXCEPT !.kid = "k9"], MalformedToken }

\* A caller starts verify_token(t): the coroutine is handed to the loop.
StartVerify ==
    /\ verifyCalls + Len(tasks) < MaxLoopCalls
    /\ \E t \in LoopTokens : tasks' = Append(tasks, t)
    /\ burst' = (burst /\ verifyCalls = 0)
    /\ UNCHANGED <<expected_resource, jwks_cache, token, fetches, verifyCalls,
                   lastResult, decodedWith, lastFetch, flowVars, authVars, gwVars>>

\* The loop runs the oldest waiting call to its end.
RunVerify ==
    /\ tasks # <<>>
    /\ token' = Head(tasks)
    /\ tasks' = Tail(tasks)
    /\ VerifyCall(Head(tasks))
    /\ UNCHANGED <<expected_resource, burst, flowVars, authVars, gwVars>>

InitLoop ==
    /\ InitFlow
    /\ InitAuthIdle
    /\ InitGatewayIdle
    /\ expected_resource \in {NONE, ExpectedResource}
    /\ jwks_cache = NoJwks
    /\ token = MalformedToken
    /\ fetches = 0
    /\ verifyCalls = 0
    /\ lastResult = NoneResult
    /\ decodedWith = NONE
    /\ lastFetch = "none"
    /\ tasks = <<>>
    /\ burst = TRUE

NextLoop ==
    \/ StartVerify
    \/ RunVerify

SpecLoop == InitLoop /\ [][NextLoop]_vars

(***************************************************************************)
(* Claims about CognitoTokenVerifier.                                      *)
(***************************************************************************)
\* The failures of verify_token, stated on the token, the configuration and
\* the key set the verifier holds after the call.
KeyFetchFailed == ~CacheTruthy(jwks_cache)
MalformedTokenGiven == ~token.wellformed
UnknownKid == ~Contains(jwks_cache.kids, token.kid)
BadSignature == token.alg # "RS256" \/ token.signer # token.kid
WrongIssuer == token.iss # Issuer
Expired == token.exp.present /\ token.exp.value + Leeway <= Now
UnknownTokenKind == token.token_use \notin {"access", "id"}
ClientIdMismatch == token.token_use = "access" /\ token.client_id # AppClientId
ResourceMismatch ==
    /\ token.token_use = "access"
    /\ expected_resource # NONE
    /\ token.aud.kind # "absent"
    /\ token.aud # [kind |-> "string", vals |-> {expected_resource}]
AudienceMismatch == token.token_use = "id" /\ AppClientId \notin token.aud.vals
MissingScope == ~Contains(token.scope.words, "openid")

AnyFailure ==
    \/ KeyFetchFailed
    \/ MalformedTokenGiven
    \/ UnknownKid
    \/ BadSignature
    \/ WrongIssuer
    \/ Expired
    \/ UnknownTokenKind
    \/ ClientIdMismatch
    \/ ResourceMismatch
    \/ AudienceMismatch
    \/ MissingScope

\* C10: verify_token never raises, every failure yields None, and a result
\* that is not None is a complete AccessToken.
C10_FailuresYieldNone ==
    verifyCalls > 0 =>
        /\ lastResult.kind \in {"None", "AccessToken"}
        /\ AnyFailure => lastResult = NoneResult
        /\ lastResult.kind = "AccessToken" =>
             /\ lastResult.client_id # NONE
             /\ Contains(lastResult.scopes, "openid")
             /\ ~Contains(lastResult.scopes, " ")

\* A fully valid access token whose verification fails because the key set
\* could not be fetched.
C10_Witness ==
    /\ verifyCalls = 1
    /\ fetches = 1
    /\ jwks_cache = NoJwks
    /\ lastResult = NoneResult
    /\ token.wellformed /\ token.kid = "k1" /\ token.alg = "RS256"
    /\ token.signer = "k1" /\ token.iss = Issuer
    /\ token.exp = [present |-> TRUE, value |-> Now + 3600]
    /\ token.token_use = "access" /\ token.client_id = AppClientId
    /\ token.aud = NoAud
    /\ token.scope = [present |-> TRUE, words |-> <<"openid">>]

\* What a token needs, besides being unexpired, to pass verify_token, stated
\* on the token, the configuration and the key set held after the call.
KeyAvailable == CacheTruthy(jwks_cache) /\ Contains(jwks_cache.kids, token.kid)
ProperlySigned ==
    /\ token.wellformed /\ KeyAvailable
    /\ token.alg = "RS256" /\ token.signer = token.kid
IssuerValid == token.iss = Issuer
ScopeValid == Contains(token.scope.words, "openid")
ResourceAcceptable ==
    \/ token.aud.kind = "absent"
    \/ /\ token.aud.kind = "string"
       /\ expected_resource = NONE \/ token.aud.vals = {expected_resource}
AccessChecksPass ==
    /\ token.token_use = "access"
    /\ token.client_id = AppClientId
    /\ ResourceAcceptable
IdChecksPass == token.token_use = "id" /\ AppClientId \in token.aud.vals
OtherChecksPass ==
    /\ ProperlySigned /\ IssuerValid /\ ScopeValid
    /\ AccessChecksPass \/ IdChecksPass

\* C11: a token whose exp lies more than 300 s before the current time
\* never gets a non-null result, and a token whose exp lies less than 300 s
\* in the past is accepted when all other checks pass.
C11_ExpiryLeeway ==
    verifyCalls > 0 =>
        /\ (token.exp.present /\ token.exp.value + 300 < Now)
             => lastResult = NoneResult
        /\ (/\ token.exp.present
            /\ token.exp.value < Now /\ Now - token.exp.value < 300
            /\ OtherChecksPass)
             => /\ lastResult.kind = "AccessToken"
                /\ lastResult.expires_at = <<token.exp.value>>

\* A token that expired 100 s ago and is valid otherwise has been accepted.
C11_Witness ==
    /\ verifyCalls > 0
    /\ token.exp = [present |-> TRUE, value |-> Now - 100]
    /\ OtherChecksPass
    /\ lastResult.kind = "AccessToken"

\* C12: with expected_resource configured, an access token that carries an
\* aud other than expected_resource yields None, whatever else is valid.
C12_ResourceMismatchRejected ==
    (/\ verifyCalls > 0
     /\ expected_resource # NONE
     /\ token.token_use = "access"
     /\ token.aud.kind # "absent"
     /\ token.aud # [kind |-> "string", vals |-> {expected_resource}])
      => lastResult = NoneResult

\* An access token bound to another resource, valid in every other respect
\* and verified with the key set loaded, has been rejected.
C12_Witness ==
    /\ verifyCalls > 0
    /\ expected_resource = ExpectedResource
    /\ token.token_use = "access"
    /\ token.aud = [kind |-> "string", vals |-> {OtherResource}]
    /\ ProperlySigned /\ IssuerValid /\ ScopeValid /\ ~Expired
    /\ token.client_id = AppClientId
    /\ lastResult = NoneResult

C15_UnknownKidRejected ==
    (verifyCalls > 0 /\ ~Contains(jwks_cache.kids, token.kid))
      => lastResult = NoneResult /\ decodedWith = NONE

\* A token signed by the cached key k1 and valid in every claim, whose
\* header names the unknown kid k9, has been rejected with the key set
\* loaded.
C15_Witness ==
    /\ verifyCalls > 0
    /\ jwks_cache = [kind |-> "dict", kids |-> <<"k1", "k2">>]
    /\ token.wellformed /\ token.kid = "k9" /\ token.signer = "k1"
    /\ token.alg = "RS256"
    /\ IssuerValid /\ ScopeValid /\ AccessChecksPass /\ ~Expired
    /\ lastResult = NoneResult
    /\ decodedWith = NONE

\* C16: an access token whose client_id is absent or differs from the
\* configured app client id yields None.
C16_ClientIdMismatchRejected ==
    (/\ verifyCalls > 0
     /\ token.token_use = "access"
     /\ token.client_id # AppClientId)
      => lastResult = NoneResult

\* An access token without client_id, valid in every other respect, has
\* been rejected.
C16_Witness ==
    /\ verifyCalls > 0
    /\ token.token_use = "access"
    /\ token.client_id = NONE
    /\ ProperlySigned /\ IssuerValid /\ ScopeValid /\ ~Expired
    /\ ResourceAcceptable
    /\ lastResult = NoneResult

\* C17: an id token gets a non-null result only if its aud is present and
\* equals the verifier's client id, and signature, issuer and expiry (with
\* the 300 s leeway) are valid.
C17_IdTokenAudience ==
    (verifyCalls > 0 /\ token.token_use = "id" /\ lastResult.kind = "AccessToken")
      => /\ token.aud = [kind |-> "string", vals |-> {AppClientId}]
         /\ ProperlySigned /\ IssuerValid /\ ~Expired

\* C18: a token whose token_use is neither 'access' nor 'id', or is
\* missing, yields None.
C18_UnknownTokenUseRejected ==
    (verifyCalls > 0 /\ token.token_use \notin {"access", "id"})
      => lastResult = NoneResult

\* A refresh token, correctly signed by a cached key, unexpired and with
\* the other claims in order, has been rejected.
C18_Witness ==
    /\ verifyCalls > 0
    /\ token.token_use = "refresh"
    /\ ProperlySigned /\ IssuerValid /\ ScopeValid /\ ~Expired
    /\ token.client_id = AppClientId
    /\ token.aud = [kind |-> "string", vals |-> {AppClientId}]
    /\ lastResult = NoneResult

\* C19: a non-null result is returned only for a token whose scope claim
\* is present and has 'openid' among its space-separated scopes.
C19_OpenidScopeRequired ==
    (/\ verifyCalls > 0
     /\ ~(token.scope.present /\ Contains(token.scope.words, "openid")))
      => lastResult = NoneResult

\* An id token valid in every other respect, whose scope is 'profile'
\* alone, has been rejected.
C19_Witness ==
    /\ verifyCalls > 0
    /\ token.scope = [present |-> TRUE, words |-> <<"profile">>]
    /\ ProperlySigned /\ IssuerValid /\ IdChecksPass /\ ~Expired
    /\ lastResult = NoneResult

\* C20: in a non-null result, resource is the token's aud when the token
\* is an access token that carries aud, and is empty for every id token
\* and for an access token without aud.
C20_ResourceField ==
    (verifyCalls > 0 /\ lastResult.kind = "AccessToken")
      => IF token.token_use = "access" /\ token.aud.kind # "absent"
           THEN /\ token.aud.kind = "string"
                /\ token.aud.vals = {lastResult.resource}
           ELSE lastResult.resource = NONE

\* An id token, which carries aud, has been accepted with an empty
\* resource.
C20_Witness ==
    /\ verifyCalls > 0
    /\ token.token_use = "id"
    /\ token.aud = [kind |-> "string", vals |-> {AppClientId}]
    /\ lastResult.kind = "AccessToken"
    /\ lastResult.resource = NONE

\* C21: once a fetch has given the verifier a key set, no later call
\* fetches again, whatever token it verifies and whatever it returns.
C21_FetchOnce ==
    [][jwks_cache.kind = "dict" => fetches' = fetches]_vars

\* After the first call fetched the key set, two more calls have run and
\* the last one, a kid miss, returned None without another fetch.
C21_Witness ==
    /\ verifyCalls = 3
    /\ fetches = 1
    /\ jwks_cache = [kind |-> "dict", kids |-> <<"k1", "k2">>]
    /\ token.kid = "k9"
    /\ lastResult = NoneResult
    /\ lastFetch = "none"

\* C22: the calls that were all started before any of them ran, with the
\* cache still empty, perform the key-set fetch at most once between them.
C22_SingleFlight ==
    burst => fetches <= 1

\* C23: a call whose key-set fetch fails returns None and leaves the cache
\* without a key set, and a token is accepted only by a verifier that holds
\* a fetched key set.
C23_FetchFailsClosed ==
    verifyCalls > 0 =>
        /\ lastFetch = "failed"
             => lastResult = NoneResult /\ jwks_cache.kind # "dict"
        /\ lastResult.kind = "AccessToken"
             => jwks_cache.kind = "dict" /\ fetches > 0

\* The key-set fetch of a valid token's call failed: the call returned
\* None and nothing is cached.
C23_Witness ==
    /\ verifyCalls > 0
    /\ lastFetch = "failed"
    /\ token = GoodAccessToken
    /\ lastResult = NoneResult
    /\ jwks_cache = NoJwks

\* C36: every non-null result belongs to a token whose RS256 signature was
\* verified, by the verifying decode, with the key of the cached key set
\* that the token's own kid selects, and whose issuer is the verifier's.
C36_AcceptedMeansVerified ==
    lastResult.kind = "AccessToken" =>
        /\ jwks_cache.kind = "dict"
        /\ Contains(jwks_cache.kids, token.kid)
        /\ decodedWith = token.kid
        /\ token.alg = "RS256"
        /\ token.signer = decodedWith
        /\ token.iss = Issuer

C36_Witness ==
    /\ lastResult.kind = "AccessToken"
    /\ token.token_use = "id"
    /\ token.kid = "k1"
    /\ decodedWith = "k1"
    /\ token.signer = "k1"

\* C37: in every non-null result, for access and id tokens alike, the
\* client_id field is the verifier's app client id.
C37_ClientIdIsConfigured ==
    lastResult.kind = "AccessToken" => lastResult.client_id = AppClientId

(***************************************************************************)
(* Authorization server (local/auth_server.py).  The provider behind the   *)
(* routes (simple_auth_provider.SimpleOAuthProvider) is described by the   *)
(* specification, sections 4.4 and 6: the authorization request's state    *)
(* machine and the token store.                                            *)
(***************************************************************************)
\* A request parameter or form field: absent, a string, or (form fields
\* only) an uploaded file.
Param(kind, arg) == [kind |-> kind, arg |-> arg]
AbsentParam == Param("absent", NONE)

\* The request as recorded in httpReq.
Request(endpoint, p) ==
    [endpoint |-> endpoint, kind |-> p.kind, arg |-> p.arg, at |-> as_now]

\* A response without introspection fields.
Plain(status, body, provider) ==
    [NoHttpResp EXCEPT !.status = status, !.body = body, !.provider = provider]

\* " ".join(access_token.scopes) (line 142).
RECURSIVE JoinScopes(_)
JoinScopes(scopes) ==
    IF Len(scopes) <= 1 THEN scopes
    ELSE <<Head(scopes), " ">> \o JoinScopes(Tail(scopes))

\* provider.load_access_token: the stored token of that value, unless it
\* was revoked or its expiry time has passed.
LoadAccessToken(value) ==
    IF value \in AuthStates
         /\ tokenStore[value].stored
         /\ ~tokenStore[value].revoked
         /\ ~(tokenStore[value].expires_at < as_now)
      THEN tokenStore[value]
      ELSE NoStoredToken

\* GET /authorize?state=s&resource=res: the request enters PENDING_LOGIN.
Authorize ==
    \E s \in AuthStates, res \in {ResourceServerUrl, NONE} :
        /\ authReq[s].phase = "none"
        /\ authReq' = [authReq EXCEPT ![s] = [phase |-> "PENDING_LOGIN",
                                              resource |-> res]]
        /\ httpReq' = Request("authorize", Param("str", s))
        /\ httpResp' = Plain(302, "login_redirect", TRUE)
        /\ UNCHANGED <<as_now, tokenStore, authenticated, exchanges,
                       oauth_strict, ivCalls, ivOutcome, ivResult,
                       flowVars, verifierVars, gwVars>>

\* The query parameters GET /login is called with.
LoginStateParams ==
    {AbsentParam, Param("str", ""), Param("str", "unknown")}
    \cup {Param("str", s) : s \in AuthStates}

\* Variant that renders the form whatever the query string is.
LoginPageResponse_NoCheck(state) == Plain(200, "login_form", TRUE)

\* login_page_handler (lines 104-109): HTTPException(400) when state is
\* missing or empty, else the provider's login page for that state.
LoginPageResponse(state) ==
    IF ~(state.kind = "str" /\ Truthy(state.arg))
      THEN Plain(400, "Missing state parameter", FALSE)
      ELSE Plain(200, "login_form", TRUE)

\* GET /login.
LoginPage ==
    \E state \in LoginStateParams :
        /\ httpReq' = Request("login", state)
        /\ httpResp' = LoginPageResponse(state)
        /\ UNCHANGED <<as_now, authReq, tokenStore, authenticated, exchanges,
                       oauth_strict, ivCalls, ivOutcome, ivResult,
                       flowVars, verifierVars, gwVars>>

\* POST /login/callback (lines 114-116, provider.handle_login_callback):
\* on the demo identity's credentials the pending request is authenticated
\* and its code is issued in the redirect; anything else is refused.
LoginCallback ==
    \E s \in AuthStates, cred \in {"demo", "wrong"} :
        /\ httpReq' = Request("login_callback", Param("str", s))
        /\ IF cred = "demo" /\ authReq[s].phase = "PENDING_LOGIN"
             THEN /\ authenticated' = [authenticated EXCEPT ![s] = TRUE]
                  /\ authReq' = [authReq EXCEPT ![s].phase = "CODE_ISSUED"]
                  /\ httpResp' = Plain(302, "redirect_with_code", TRUE)
             ELSE /\ UNCHANGED <<authenticated, authReq>>
                  /\ httpResp' = Plain(401, "refused", TRUE)
        /\ UNCHANGED <<as_now, tokenStore, exchanges,
                       oauth_strict, ivCalls, ivOutcome, ivResult,
                       flowVars, verifierVars, gwVars>>

\* Variant that accepts the code of a request in any phase.
CodeExchangeable_AnyPhase(s) == TRUE

\* A code can be exchanged while its request is in CODE_ISSUED.
CodeExchangeable(s) == authReq[s].phase = "CODE_ISSUED"

\* POST /token with the code of request s: the token is minted and stored
\* under its value, and the request moves to TOKEN_ISSUED.
TokenExchange ==
    \E s \in AuthStates :
        /\ httpReq' = Request("token", Param("str", s))
        /\ IF CodeExchangeable(s)
             THEN /\ authReq' = [authReq EXCEPT ![s].phase = "TOKEN_ISSUED"]
                  /\ tokenStore' = [tokenStore EXCEPT ![s] =
                        [ stored |-> TRUE, client_id |-> DemoClientId,
                          scopes |-> <<McpScope>>,
                          expires_at |-> as_now + TokenTtl,
                          resource |-> authReq[s].resource,
                          revoked |-> FALSE ]]
                  /\ exchanges' = [exchanges EXCEPT
                                     ![s] = IF @ < 2 THEN @ + 1 ELSE @]
                  /\ httpResp' = Plain(200, "token", TRUE)
             ELSE /\ UNCHANGED <<authReq, tokenStore, exchanges>>
                  /\ httpResp' = Plain(400, "invalid_grant", TRUE)
        /\ UNCHANGED <<as_now, authenticated,
                       oauth_strict, ivCalls, ivOutcome, ivResult,
                       flowVars, verifierVars, gwVars>>

\* POST /revoke of a stored token (the revocation route of line 100).
Revoke ==
    \E s \in AuthStates :
        /\ tokenStore[s].stored
        /\ tokenStore' = [tokenStore EXCEPT ![s].revoked = TRUE]
        /\ httpReq' = Request("revoke", Param("str", s))
        /\ httpResp' = Plain(200, "revoked", TRUE)
        /\ UNCHANGED <<as_now, authReq, authenticated, exchanges,
                       oauth_strict, ivCalls, ivOutcome, ivResult,
                       flowVars, verifierVars, gwVars>>

\* time.time() advances.
TickAS ==
    /\ as_now < MaxTime
    /\ as_now' = as_now + 1
    /\ UNCHANGED <<authReq, tokenStore, authenticated, exchanges, httpReq,
                   httpResp, oauth_strict, ivCalls, ivOutcome, ivResult,
                   flowVars, verifierVars, gwVars>>

\* The token form field POST /introspect is called with: absent, empty, the
\* value of a token the server may have issued, a value it never issued,
\* or an uploaded file.
TokenFields ==
    {AbsentParam, Param("str", ""), Param("str", "garbage"),
     Param("upload", NONE)}
    \cup {Param("str", s) : s \in AuthStates}

\* The JSON responses of introspect_handler.
Inactive(status) ==
    [NoHttpResp EXCEPT !.status = status, !.body = "json", !.active = "false",
                       !.provider = (status = 200)]
ActiveResponse(access_token) ==
    [ status |-> 200, body |-> "json", active |-> "true",
      client_id |-> access_token.client_id,
      scope |-> JoinScopes(access_token.scopes),
      exp |-> <<access_token.expires_at>>,
      aud |-> access_token.resource,
      provider |-> TRUE ]

\* Variant that reads the token store without the provider's checks.
IntrospectResponse_RawStore(field) ==
    IF field.kind # "str" \/ field.arg = "" THEN Inactive(400)
    ELSE IF field.arg \in AuthStates /\ tokenStore[field.arg].stored
      THEN ActiveResponse(tokenStore[field.arg])
      ELSE Inactive(200)

\* introspect_handler (lines 128-148): 400 when form.get("token") is None,
\* empty or no string; else the provider's lookup decides.
IntrospectResponse(field) ==
    IF field.kind # "str" \/ ~Truthy(field.arg) THEN Inactive(400)
    ELSE LET access_token == LoadAccessToken(field.arg) IN
      IF ~access_token.stored THEN Inactive(200)
      ELSE ActiveResponse(access_token)

\* POST /introspect.
Introspect ==
    \E field \in TokenFields :
        /\ httpReq' = Request("introspect", field)
        /\ httpResp' = IntrospectResponse(field)
        /\ UNCHANGED <<as_now, authReq, tokenStore, authenticated, exchanges,
                       oauth_strict, ivCalls, ivOutcome, ivResult,
                       flowVars, verifierVars, gwVars>>

InitAuthServer ==
    InitFlow /\ InitVerifierIdle /\ InitAuthIdle /\ InitGatewayIdle

NextAuthServer ==
    \/ Authorize
    \/ LoginPage
    \/ LoginCallback
    \/ TokenExchange
    \/ Revoke
    \/ TickAS
    \/ Introspect

SpecAuthServer == InitAuthServer /\ [][NextAuthServer]_vars

(***************************************************************************)
(* Claims about the authorization server.                                  *)
(***************************************************************************)
\* The latest request was POST /introspect.
Introspected == httpReq.endpoint = "introspect"

\* The token of the latest request was issued, and at the time of the
\* request it was neither revoked nor past its expiry time.
TokenLive ==
    /\ httpReq.kind = "str" /\ httpReq.arg \in AuthStates
    /\ exchanges[httpReq.arg] > 0
    /\ ~tokenStore[httpReq.arg].revoked
    /\ tokenStore[httpReq.arg].expires_at >= httpReq.at

\* C24: POST /introspect answers 200 with active=false for every token
\* value that is unknown or invalid, and 400 exactly when the token field
\* is absent: never when the field is there, even if it is empty.
C24_IntrospectStatus ==
    Introspected =>
        /\ httpResp.status = 400 <=> httpReq.kind = "absent"
        /\ (httpReq.kind # "absent" /\ ~TokenLive)
             => httpResp.status = 200 /\ httpResp.active = "false"

\* C28: a token exists only for a request that passed the credential check
\* and had its code issued; a request that reached TOKEN_ISSUED stays
\* there, and its code is not exchanged a second time.
C28_TokenOnlyAfterLogin ==
    \A s \in AuthStates :
        /\ tokenStore[s].stored =>
             authenticated[s] /\ authReq[s].phase = "TOKEN_ISSUED"
        /\ authReq[s].phase \in {"CODE_ISSUED", "TOKEN_ISSUED"} => authenticated[s]
        /\ exchanges[s] <= 1

C28_LifecycleOneWay ==
    /\ [](C28_TokenOnlyAfterLogin)
    /\ [][\A s \in AuthStates :
            authReq[s].phase = "TOKEN_ISSUED" =>
                /\ authReq'[s].phase = "TOKEN_ISSUED"
                /\ exchanges'[s] = exchanges[s]]_vars

\* The code of a request whose token was already issued has been presented
\* again and was refused.
C28_Witness ==
    /\ httpReq.endpoint = "token"
    /\ authReq[httpReq.arg].phase = "TOKEN_ISSUED"
    /\ exchanges[httpReq.arg] = 1
    /\ httpResp.status = 400

\* C29: introspection says active=true exactly for a token value that a
\* code exchange issued and that is neither expired nor revoked; a token
\* that is revoked or past its expiry time stays so.
TokenDead(s) ==
    /\ tokenStore[s].stored
    /\ tokenStore[s].revoked \/ tokenStore[s].expires_at < as_now

C29_ActiveOnlyWhileLive ==
    Introspected => (httpResp.active = "true" <=> TokenLive)

C29_InactiveForGood ==
    /\ [](C29_ActiveOnlyWhileLive)
    /\ [][\A s \in AuthStates : TokenDead(s) => TokenDead(s)']_vars

\* A token that had been issued was revoked, and a later introspection of
\* it answered active=false.
C29_Witness ==
    /\ Introspected
    /\ httpReq.arg \in AuthStates
    /\ tokenStore[httpReq.arg].revoked
    /\ tokenStore[httpReq.arg].expires_at >= httpReq.at
    /\ httpResp.status = 200
    /\ httpResp.active = "false"

\* C30: GET /login without a state parameter is answered with 400; the
\* form is not rendered and the provider's login page is not reached.
C30_LoginRequiresState ==
    (httpReq.endpoint = "login" /\ httpReq.kind = "absent")
      => /\ httpResp.status = 400
         /\ httpResp.body # "login_form"
         /\ ~httpResp.provider

\* GET /login came without state while a request was pending.
C30_Witness ==
    /\ httpReq.endpoint = "login"
    /\ httpReq.kind = "absent"
    /\ httpResp.status = 400
    /\ \E s \in AuthStates : authReq[s].phase = "PENDING_LOGIN"

(***************************************************************************)
(* Introspection verifier of the resource server                           *)
(* (local/mcp-server-with-auth.py).  create_resource_server configures it  *)
(* (lines 77-82); its verify_token (token_verifier.py) is described by the *)
(* specification, section 4.3.b.                                           *)
(***************************************************************************)
\* The fields an introspection response body may carry.
IntrospectionBodies ==
    [ active : {"true", "false", "missing"},
      client_id : {DemoClientId, NONE},
      scope : {<<>>, <<McpScope>>, <<McpScope, " ", "read">>},
      exp : {<<>>, <<MaxTime>>},
      aud : {ResourceServerUrl, OtherServerUrl, NONE} ]

\* What the POST to the introspection endpoint comes to: no response at
\* all, a body that is no JSON, or a JSON body with a success ("response")
\* or a non-success ("http_error") status.
IntrospectionOutcomes ==
    { [NoIntrospection EXCEPT !.kind = k] : k \in {"network_error", "bad_json"} }
    \cup { [ kind |-> k, active |-> b.active, client_id |-> b.client_id,
             scope |-> b.scope, exp |-> b.exp, aud |-> b.aud ] :
             k \in {"response", "http_error"}, b \in IntrospectionBodies }

\* validate_resource=settings.oauth_strict switched off.
ValidateResource_Off == FALSE

\* validate_resource=settings.oauth_strict (line 81).
ValidateResource == oauth_strict

\* Variant that parses the body whatever the status is.
RequestSucceeded_NoStatusCheck(o) == o.kind \in {"response", "http_error"}

\* The request completed with a success status and a parsed body.
RequestSucceeded(o) == o.kind = "response"

\* Variant that only refuses an explicit active=false.
ResponseActive_MissingOk(o) == o.active # "false"

\* The response says active=true.
ResponseActive(o) == o.active = "true"

\* verify_token of the introspection verifier on outcome o.
IntrospectionResult(o) ==
    IF ~RequestSucceeded(o) THEN NoneResult
    ELSE IF ~ResponseActive(o) THEN NoneResult
    ELSE IF ValidateResource /\ o.aud # ResourceServerUrl THEN NoneResult
    ELSE [ kind |-> "AccessToken",
           client_id |-> o.client_id,
           scopes |-> Split(o.scope),
           expires_at |-> o.exp,
           resource |-> o.aud ]

\* One verify_token call of the introspection verifier.
IntrospectionVerify ==
    /\ ivCalls < MaxIntrospectCalls
    /\ \E o \in IntrospectionOutcomes :
         /\ ivOutcome' = o
         /\ ivResult' = IntrospectionResult(o)
    /\ ivCalls' = ivCalls + 1
    /\ UNCHANGED <<as_now, authReq, tokenStore, authenticated, exchanges,
                   httpReq, httpResp, oauth_strict, flowVars, verifierVars, gwVars>>

\* The resource server is started with or without --oauth-strict.
InitIntrospection ==
    /\ InitFlow
    /\ InitVerifierIdle
    /\ InitGatewayIdle
    /\ InitAuthState
    /\ oauth_strict \in BOOLEAN

NextIntrospection == IntrospectionVerify

SpecIntrospection == InitIntrospection /\ [][NextIntrospection]_vars

(***************************************************************************)
(* Claims about the introspection verifier.                                *)
(***************************************************************************)
\* C25: a response with active=false, or without active, yields None
\* whatever scope, client_id, exp and aud it carries.
C25_InactiveYieldsNone ==
    (ivCalls > 0 /\ ivOutcome.kind = "response" /\ ivOutcome.active # "true")
      => ivResult = NoneResult

\* A response with active=false that carries a client id, a scope and the
\* server's own URL as aud has been refused.
C25_Witness ==
    /\ ivCalls > 0
    /\ ivOutcome.kind = "response"
    /\ ivOutcome.active = "false"
    /\ ivOutcome.client_id = DemoClientId
    /\ ivOutcome.scope = <<McpScope>>
    /\ ivOutcome.aud = ResourceServerUrl
    /\ ivResult = NoneResult

\* C26: in strict mode a non-null result needs the response's aud to equal
\* the resource server's URL; otherwise aud has no influence on acceptance.
C26_StrictAudience ==
    ivCalls > 0 =>
        /\ (oauth_strict /\ ivResult.kind = "AccessToken")
             => ivOutcome.aud = ResourceServerUrl
        /\ (~oauth_strict /\ ivOutcome.kind = "response"
              /\ ivOutcome.active = "true")
             => ivResult.kind = "AccessToken"

\* In strict mode an active response for another resource has been refused.
C26_Witness ==
    /\ ivCalls > 0
    /\ oauth_strict
    /\ ivOutcome.kind = "response"
    /\ ivOutcome.active = "true"
    /\ ivOutcome.aud = OtherServerUrl
    /\ ivResult = NoneResult

gwLocals == <<gateway_id, listed, resp_status, pending, waitFrom, waited>>
gwHist == <<created, deleted, leftTargets, observed, waitRet, targetCall>>
notGateway == <<flowVars, verifierVars, authVars>>

\* The gateways that list_gateways reports under the requested name.
Named == {id \in GatewayIds : gw[id].name = GatewayName}

\* Ids the control plane has not handed out, and the one it hands out next.
FreeIds == {id \in GatewayIds : gw[id].status = NONE}
NextFreeId == IF "g1" \in FreeIds THEN "g1" ELSE "g2"

\* The control plane before the script runs: no gateway, a gateway of
\* another name, or one gateway of the requested name in some status,
\* with or without targets.
InitialGateways ==
    { [id \in GatewayIds |-> NoGateway] }
    \cup { [id \in GatewayIds |->
              IF id = "g1"
                THEN [name |-> OtherGatewayName, status |-> "READY", targets |-> {}]
                ELSE NoGateway] }
    \cup { [id \in GatewayIds |->
              IF id = "g1"
                THEN [name |-> GatewayName, status |-> st, targets |-> ts]
                ELSE NoGateway] :
           st \in GatewayStatuses,
           ts \in {{}, {OtherTargetName}, {LambdaTargetName, OtherTargetName}} }

InitGateway ==
    /\ InitFlow
    /\ InitVerifierIdle
    /\ InitAuthIdle
    /\ gw \in InitialGateways
    /\ gpc = "idle"
    /\ runs = 0
    /\ gateway_id = NONE
    /\ listed = NONE
    /\ resp_status = NONE
    /\ pending = {}
    /\ waitFrom = "none"
    /\ waited = 0
    /\ created = FALSE
    /\ deleted = FALSE
    /\ leftTargets = {}
    /\ observed = NONE
    /\ waitRet = "none"
    /\ targetCall = FALSE
    /\ gresult = "none"

\* main (lines 697-723) calls setup_complete; steps 1 to 3 (lines 613-624:
\* the IAM roles and the Lambda function) succeed or raise.
StartSetup ==
    /\ gpc = "idle"
    /\ runs < MaxRuns
    /\ runs' = runs + 1
    /\ gateway_id' = NONE
    /\ listed' = NONE
    /\ resp_status' = NONE
    /\ pending' = {}
    /\ waitFrom' = "none"
    /\ waited' = 0
    /\ created' = FALSE
    /\ deleted' = FALSE
    /\ leftTargets' = {}
    /\ observed' = NONE
    /\ waitRet' = "none"
    /\ targetCall' = FALSE
    /\ \/ gpc' = "goc_list" /\ gresult' = "none"
       \/ gpc' = "idle" /\ gresult' = "raised"
    /\ UNCHANGED <<gw, notGateway>>

\* Lines 384-408: what get_or_create_gateway does with the status of the
\* listed gateway: reuse, wait, delete and recreate, or create.
StatusBranch(status) ==
    IF status = "READY" THEN "goc_get"
    ELSE IF status = "CREATING" THEN "w_while"
    ELSE IF status = "FAILED" THEN "del_list"
    ELSE "goc_create"

\* Lines 375-408: list_gateways, and the loop over its items up to the
\* first one that carries the requested name.
ListGateways ==
    /\ gpc = "goc_list"
    /\ \/ /\ gpc' = "idle"
          /\ gresult' = "raised"
          /\ UNCHANGED <<gateway_id, listed, waitFrom>>
       \/ /\ Named = {}
          /\ gpc' = "goc_create"
          /\ UNCHANGED <<gateway_id, listed, waitFrom, gresult>>
       \/ \E id \in Named :
            /\ gateway_id' = id
            /\ listed' = gw[id].status
            /\ gpc' = StatusBranch(gw[id].status)
            /\ waitFrom' = IF gw[id].status = "CREATING"
                             THEN "get_or_create_gateway" ELSE waitFrom
            /\ UNCHANGED gresult
    /\ waited' = 0
    /\ UNCHANGED <<gw, runs, resp_status, pending, gwHist, notGateway>>

\* Lines 387-388 and 394-395: get_gateway for the gateway that is reused.
GetGateway ==
    /\ gpc = "goc_get"
    /\ \/ /\ gpc' = "idle"
          /\ gresult' = "raised"
          /\ UNCHANGED <<resp_status, observed>>
       \/ /\ gw[gateway_id].status # NONE
          /\ resp_status' = gw[gateway_id].status
          /\ observed' = gw[gateway_id].status
          /\ gpc' = "sc_status"
          /\ UNCHANGED gresult
    /\ UNCHANGED <<gw, runs, gateway_id, listed, pending, waitFrom, waited,
                   created, deleted, leftTargets, waitRet, targetCall,
                   notGateway>>

\* delete_gateway, lines 456-459: list_gateway_targets.
DeleteListTargets ==
    /\ gpc = "del_list"
    /\ \/ /\ gpc' = "idle"
          /\ gresult' = "raised"
          /\ UNCHANGED pending
       \/ /\ gw[gateway_id].status # NONE
          /\ pending' = gw[gateway_id].targets
          /\ gpc' = "del_loop"
          /\ UNCHANGED gresult
    /\ UNCHANGED <<gw, runs, gateway_id, listed, resp_status, waitFrom,
                   waited, gwHist, notGateway>>

\* delete_gateway, lines 461-468: one delete_gateway_target per listed
\* target; after the last one, line 472 is next.
DeleteTargets ==
    /\ gpc = "del_loop"
    /\ IF pending = {}
         THEN /\ gpc' = "del_gateway"
              /\ UNCHANGED <<gw, pending, deleted, gresult>>
         ELSE \E t \in pending :
                /\ deleted' = TRUE
                /\ \/ /\ gpc' = "idle"
                      /\ gresult' = "raised"
                      /\ UNCHANGED <<gw, pending>>
                   \/ /\ gw' = [gw EXCEPT ![gateway_id].targets = @ \ {t}]
                      /\ pending' = pending \ {t}
                      /\ UNCHANGED <<gpc, gresult>>
    /\ UNCHANGED <<runs, gateway_id, listed, resp_status, waitFrom, waited,
                   created, leftTargets, observed, waitRet, targetCall,
                   notGateway>>

\* delete_gateway, lines 470-473: the control plane refuses, or starts the
\* deletion (status DELETING), or has removed the gateway by the time the
\* call returns.
DeleteGateway ==
    /\ gpc = "del_gateway"
    /\ deleted' = TRUE
    /\ leftTargets' = gw[gateway_id].targets
    /\ \/ /\ gpc' = "idle"
          /\ gresult' = "raised"
          /\ UNCHANGED gw
       \/ /\ gw[gateway_id].status # NONE
          /\ \/ gw' = [gw EXCEPT ![gateway_id].status = "DELETING"]
             \/ gw' = [gw EXCEPT ![gateway_id] = NoGateway]
          /\ gpc' = "goc_create"
          /\ UNCHANGED gresult
    /\ UNCHANGED <<runs, gwLocals, created, observed, waitRet, targetCall,
                   notGateway>>

\* Lines 410-439: create_gateway under the requested name.  The script
\* passes the name whether or not a gateway of that name exists; the
\* control plane answers with a new gateway in status CREATING or with
\* an error.
CreateGateway ==
    /\ gpc = "goc_create"
    /\ created' = TRUE
    /\ \/ /\ gpc' = "idle"
          /\ gresult' = "raised"
          /\ UNCHANGED <<gw, gateway_id, resp_status>>
       \/ /\ FreeIds # {}
          /\ gw' = [gw EXCEPT ![NextFreeId] = [name |-> GatewayName,
                                                 status |-> "CREATING",
                                                 targets |-> {}]]
          /\ gateway_id' = NextFreeId
          /\ resp_status' = "CREATING"
          /\ gpc' = "sc_status"
          /\ UNCHANGED gresult
    /\ UNCHANGED <<runs, listed, pending, waitFrom, waited, deleted,
                   leftTargets, observed, waitRet, targetCall, notGateway>>

\* Variant of line 637 that waits for a gateway in creation only.
NeedsWait_CreatingOnly(status) == status = "CREATING"

\* Line 637: if status != 'READY'
NeedsWait(status) == status # "READY"

\* setup_complete, lines 633-642: wait unless the response says READY.
SetupStatus ==
    /\ gpc = "sc_status"
    /\ IF NeedsWait(resp_status)
         THEN /\ gpc' = "w_while"
              /\ waitFrom' = "setup_complete"
              /\ waited' = 0
              /\ waitRet' = "none"
         ELSE /\ gpc' = "target"
              /\ UNCHANGED <<waitFrom, waited, waitRet>>
    /\ UNCHANGED <<gw, runs, gateway_id, listed, resp_status, pending,
                   created, deleted, leftTargets, observed, targetCall,
                   gresult, notGateway>>

\* Line 498: the wait gives up once max_wait_seconds have passed.
WaitExpired(n) == n >= MaxWaitChecks

\* wait_for_gateway_ready, lines 498 and 519-520; the caller turns False
\* into an exception (lines 396-397 and 639-640).
GatewayWaitWhile ==
    /\ gpc = "w_while"
    /\ IF WaitExpired(waited)
         THEN /\ waitRet' = "timeout"
              /\ gpc' = "idle"
              /\ gresult' = "raised"
         ELSE /\ gpc' = "w_get"
              /\ UNCHANGED <<waitRet, gresult>>
    /\ UNCHANGED <<gw, runs, gwLocals, created, deleted, leftTargets,
                   observed, targetCall, notGateway>>

\* Line 508: the statuses that end the wait with False.
WaitGivesUpOn == {"FAILED", "DELETING", "DELETED"}

\* wait_for_gateway_ready, lines 500-517: one status check.
GatewayWaitGet ==
    /\ gpc = "w_get"
    /\ \/ /\ waitRet' = "raised"
          /\ gpc' = "idle"
          /\ gresult' = "raised"
          /\ UNCHANGED observed
       \/ /\ gw[gateway_id].status # NONE
          /\ observed' = gw[gateway_id].status
          /\ IF gw[gateway_id].status = "READY"
               THEN /\ waitRet' = "true"
                    /\ gpc' = IF waitFrom = "get_or_create_gateway"
                                THEN "goc_get" ELSE "target"
                    /\ UNCHANGED gresult
               ELSE IF gw[gateway_id].status \in WaitGivesUpOn
                 THEN /\ waitRet' = "false"
                      /\ gpc' = "idle"
                      /\ gresult' = "raised"
                 ELSE /\ gpc' = "w_sleep"
                      /\ UNCHANGED <<waitRet, gresult>>
    /\ UNCHANGED <<gw, runs, gwLocals, created, deleted, leftTargets,
                   targetCall, notGateway>>

\* wait_for_gateway_ready, line 513: time.sleep(check_interval).
GatewayWaitSleep ==
    /\ gpc = "w_sleep"
    /\ waited' = waited + 1
    /\ gpc' = "w_while"
    /\ UNCHANGED <<gw, runs, gateway_id, listed, resp_status, pending,
                   waitFrom, gwHist, gresult, notGateway>>

\* setup_complete, lines 663-669, with get_or_create_lambda_target
\* (541-597): the target is looked up by name and created when missing.
LambdaTarget ==
    /\ gpc = "target"
    /\ targetCall' = TRUE
    /\ gpc' = "idle"
    /\ \/ /\ gresult' = "raised"
          /\ UNCHANGED gw
       \/ /\ gw[gateway_id].status # NONE
          /\ gw' = [gw EXCEPT ![gateway_id].targets = @ \cup {LambdaTargetName}]
          /\ gresult' = "ok"
    /\ UNCHANGED <<runs, gwLocals, created, deleted, leftTargets, observed,
                   waitRet, notGateway>>

\* The control plane finishes what it has begun: a creation ends in READY
\* or FAILED, an update in READY, a deletion in the gateway's removal.
ControlPlaneProgress ==
    /\ \E id \in GatewayIds :
         \/ /\ gw[id].status = "CREATING"
            /\ \E st \in {"READY", "FAILED"} :
                 gw' = [gw EXCEPT ![id].status = st]
         \/ /\ gw[id].status = "UPDATING"
            /\ gw' = [gw EXCEPT ![id].status = "READY"]
         \/ /\ gw[id].status = "DELETING"
            /\ \/ gw' = [gw EXCEPT ![id].status = "DELETED"]
               \/ gw' = [gw EXCEPT ![id] = NoGateway]
         \/ /\ gw[id].status = "DELETED"
            /\ gw' = [gw EXCEPT ![id] = NoGateway]
    /\ UNCHANGED <<gpc, runs, gwLocals, gwHist, gresult, notGateway>>

\* Someone else updates a READY gateway, or deletes a gateway.
OperatorChange ==
    /\ \E id \in GatewayIds :
         \/ /\ gw[id].status = "READY"
            /\ gw' = [gw EXCEPT ![id].status = "UPDATING"]
         \/ /\ gw[id].status \in {"CREATING", "READY", "FAILED", "UPDATING"}
            /\ gw' = [gw EXCEPT ![id].status = "DELETING"]
    /\ UNCHANGED <<gpc, runs, gwLocals, gwHist, gresult, notGateway>>

SetupScript ==
    \/ ListGateways
    \/ GetGateway
    \/ DeleteListTargets
    \/ DeleteTargets
    \/ DeleteGateway
    \/ CreateGateway
    \/ SetupStatus
    \/ GatewayWaitWhile
    \/ GatewayWaitGet
    \/ GatewayWaitSleep
    \/ LambdaTarget

NextGateway ==
    \/ StartSetup
    \/ ListGateways
    \/ GetGateway
    \/ DeleteListTargets
    \/ DeleteTargets
    \/ DeleteGateway
    \/ CreateGateway
    \/ SetupStatus
    \/ GatewayWaitWhile
    \/ GatewayWaitGet
    \/ GatewayWaitSleep
    \/ LambdaTarget
    \/ ControlPlaneProgress
    \/ OperatorChange

SpecGateway == InitGateway /\ [][NextGateway]_vars

\* The script keeps running once started; the control plane and the other
\* operators are under no obligation.
FairSpecGateway ==
    /\ SpecGateway
    /\ WF_vars(SetupScript)

(***************************************************************************)
(* Claims about the gateway setup.                                         *)
(***************************************************************************)
\* Gateways of the requested name that are not being deleted.
LiveNamed == {id \in Named : gw[id].status \notin {"DELETING", "DELETED"}}

\* What get_or_create_gateway does in each branch, in the running or the
\* latest run: a gateway listed READY or CREATING is neither recreated nor
\* deleted, only a gateway listed FAILED is deleted, and the control plane
\* is asked to delete a gateway only when none of its targets is left.
GatewayBranches ==
    /\ listed = "READY" => (~created /\ ~deleted)
    /\ listed = "CREATING" => (~created /\ ~deleted)
    /\ deleted => listed = "FAILED"
    /\ leftTargets = {}

GatewayWaitPcs == {"w_while", "w_get", "w_sleep"}

\* C39 (safety part): the target is looked up or created only when the
\* run's latest status check saw READY, and a wait that saw FAILED,
\* DELETING or DELETED, or ran out of time, ends the run with an exception
\* and without a target call.
C39_SetupSafe ==
    /\ targetCall => observed = "READY"
    /\ gpc = "target" => observed = "READY"
    /\ waitRet \in {"false", "timeout"} =>
         (gresult = "raised" /\ gpc = "idle" /\ ~targetCall)

\* The step on which wait_for_gateway_ready returns True.
WaitReturnsTrue == waitRet # "true" /\ waitRet' = "true"

\* C39: the Lambda target comes only after READY has been observed, a
\* failed or expired wait makes setup_complete raise before any target
\* call, wait_for_gateway_ready returns True only on a status check that
\* saw READY, and it always terminates.
C39_TargetAfterReady ==
    /\ [](C39_SetupSafe)
    /\ [][WaitReturnsTrue => observed' = "READY"]_vars
    /\ (gpc \in GatewayWaitPcs) ~> (gpc \notin GatewayWaitPcs)

C39_Witness ==
    /\ gresult = "raised"
    /\ waitRet = "false"
    /\ observed = "DELETING"
    /\ waitFrom = "setup_complete"
    /\ created
    /\ ~targetCall

=============================================================================
